---- MODULE Spec2Model ----
(***************************************************************************)
(* MCP server for Apache OFBiz: the session registry (SessionManager), the *)
(* MCP POST dispatcher (createMcpRequestHandler) and the GET/DELETE        *)
(* session handler (createSessionRequestHandler); in front of them the     *)
(* routes of createApp with the auth middleware (createAuthMiddleware) and *)
(* the token validator (validateAccessToken), and behind the dispatcher    *)
(* the token exchanger (performTokenExchange).                             *)
(*                                                                         *)
(* A POST handler invocation is a process: it runs synchronously from one  *)
(* await to the next, so each action below is one such segment.  The       *)
(* awaits are loadTools, server.connect, performTokenExchange and          *)
(* transport.handleRequest.                                                *)
(***************************************************************************)
EXTENDS Integers, Sequences, FiniteSets, TLC

\* ------------------------------------------------------------------ bounds
MaxReq == 2          \* handler invocations in flight at once
MaxTransports == 2   \* transports (accepted initializations) per run
MaxFiles == 2        \* entries of the tools directory
MaxDefs == 2         \* tool definitions in the array one factory returns
MaxConns == 2        \* connections open at once
MaxSignals == 2      \* SIGINT/SIGTERM deliveries per run
MaxSingleTransports == 1   \* transports per run of a single-session run
MaxSerialReq == 1    \* handler invocations in flight in a serial run

Reqs == 1 .. MaxReq
\* session identifiers a client can present: every one the server can issue
\* in a run, and one it never issues
Ids == 1 .. (MaxTransports + 1)
NoId == 0            \* header 'mcp-session-id' absent (undefined)
NoTransport == 0     \* getTransport's undefined

Null == "null"
Undefined == "undefined"
SubjectTokens == {"subA", "subB"}      \* validated bearer tokens
StaticTokens == {"st1", "st2"}         \* values of BACKEND_ACCESS_TOKEN

\* JavaScript truthiness of a string | null | undefined
Truthy(v) == v \notin {Null, Undefined, ""}

\* the access token the authorization server issues for a subject token
AccessTokenFor(sub) == IF sub = "subA" THEN "dsA" ELSE "dsB"

VARIABLES
    sessions,       \* SessionManager.sessions: id -> [transport, downstreamToken]
    transports,     \* every StreamableHTTPServerTransport constructed so far
    req,            \* the handler invocations (POST, GET, DELETE)
    backendToken,   \* BACKEND_ACCESS_TOKEN in the configuration file
    enableAuth,     \* config.enableAuth
    enableTokenExchange,  \* derivedConfig.enableTokenExchange
    loadToolsCalls, \* number of config.loadTools invocations
    http,           \* the auth middleware's invocations, one per request slot
    oauth,          \* the exchanger: cachedAuthServerConfig, calls in flight
    config,         \* runtimeConfig.config: the ServerConfig main() loaded
    proc,           \* the process: startup, listening server, shutdown, exit
    loader          \* one loadTools call and the McpServer it feeds

vars == <<sessions, transports, req, backendToken, enableAuth,
          enableTokenExchange, loadToolsCalls, http, oauth,
          config, proc, loader>>

\* what main() sets up before the first request, and the tool loader
boot == <<config, proc, loader>>

\* what the dispatcher and the session handler never touch
pipeline == <<http, oauth, config, proc, loader>>

\* ------------------------------------------------------- SessionManager
\* mutant: the lookup ignores the key and returns some session's transport
GetTransportAny(s, id) ==
    IF DOMAIN s = {} THEN NoTransport
    ELSE s[CHOOSE i \in DOMAIN s : \A j \in DOMAIN s : i <= j].transport

GetTransport(s, id) ==
    IF id \in DOMAIN s THEN s[id].transport ELSE NoTransport

\* mutant: the cache lookup always misses
GetDownstreamTokenMiss(s, id) == Null

GetDownstreamToken(s, id) ==
    IF id \notin DOMAIN s THEN Null ELSE s[id].downstreamToken

\* mutant: the session-initialized callback stores nothing
AddSessionNoop(s, id, t) == s

AddSession(s, id, t) ==
    [i \in DOMAIN s \cup {id} |->
        IF i = id THEN [transport |-> t, downstreamToken |-> Null] ELSE s[i]]

\* mutant: the close callback removes nothing
DeleteSessionNoop(s, id) == s

DeleteSession(s, id) ==
    IF id = NoId THEN s ELSE [i \in DOMAIN s \ {id} |-> s[i]]

\* mutant: setting the token of an unknown identifier creates an entry
SetDownstreamTokenUpsert(s, id, tok) ==
    [i \in DOMAIN s \cup {id} |->
        IF i = id
        THEN [transport |-> IF id \in DOMAIN s THEN s[id].transport
                            ELSE NoTransport,
              downstreamToken |-> tok]
        ELSE s[i]]

\* mutant: a token already stored is kept, the new one is dropped
SetDownstreamTokenKeepFirst(s, id, tok) ==
    IF id \notin DOMAIN s \/ Truthy(s[id].downstreamToken) THEN s
    ELSE [s EXCEPT ![id].downstreamToken = tok]

SetDownstreamToken(s, id, tok) ==
    IF id \notin DOMAIN s THEN s
    ELSE [s EXCEPT ![id].downstreamToken = tok]

HasSession(s, id) == id \in DOMAIN s

GetSessionCount(s) == Cardinality(DOMAIN s)

\* ------------------------------------------------------------ transports
\* new StreamableHTTPServerTransport({...}): no session identifier until the
\* transport confirms session start; onclose wired; not yet connected
NewTransport == [sessionId |-> NoId, closed |-> FALSE, connected |-> FALSE]

IssuedIds == {transports[t].sessionId : t \in DOMAIN transports} \ {NoId}

\* mutant: the generator returns the same identifier every time
StaleUUID == CHOOSE i \in Ids : \A j \in Ids : i <= j

\* sessionIdGenerator: randomUUID() yields an identifier never issued before
\* (identifiers are opaque, so the least unissued one stands for it)
RandomUUID ==
    CHOOSE i \in Ids \ IssuedIds : \A j \in Ids \ IssuedIds : i <= j

\* ------------------------------------------------------------- requests
NoAuth ==
    [present |-> FALSE, valid |-> FALSE, subjectToken |-> Undefined,
     downstreamToken |-> Undefined]

\* the context the auth middleware attaches for a bearer validated as valid
ValidatedAuth(sub) ==
    [present |-> TRUE, valid |-> TRUE, subjectToken |-> sub,
     downstreamToken |-> Undefined]

\* createApp: with enableAuth the handlers run behind the auth middleware,
\* which lets only validated bearers through; without it no context exists
ArrivingAuths ==
    IF enableAuth THEN {ValidatedAuth(sub) : sub \in SubjectTokens}
    ELSE {NoAuth}

IdleReq ==
    [pc |-> "idle", method |-> "POST", sessionId |-> NoId, isInit |-> FALSE,
     auth |-> NoAuth,
     transport |-> NoTransport, status |-> 0, code |-> 0,
     exchCalls |-> 0, exchArg |-> Undefined, staticReads |-> 0,
     cacheWrites |-> 0,
     body |-> "",           \* what the handler itself wrote as response body
     thrown |-> "none",     \* the error the handler's promise rejected with
     toolsRegistered |-> FALSE]   \* every loaded tool registered on the server

\* main: performTokenExchange is passed only with enableAuth and
\* enableTokenExchange; tokenExchangeConfig only with enableAuth
PerformTokenExchangeSet == enableAuth /\ enableTokenExchange
TokenExchangeConfigSet == enableAuth

\* line 40: session id present and the registry has a transport for it
IsReuse(sid) == sid # NoId /\ GetTransport(sessions, sid) # NoTransport

\* mutant: the new-session branch does not check that the header is absent
IsNewSessionAnyId(sid, init) == init

\* line 43: no session id and the body is an initialization request
IsNewSession(sid, init) == sid = NoId /\ init

\* mutant: the synthesized context is never valid
SynthesizeAuthInvalid(a) ==
    IF a.present THEN a
    ELSE [present |-> TRUE, valid |-> FALSE, subjectToken |-> Undefined,
          downstreamToken |-> Null]

\* mutant: the synthesized context is always valid
SynthesizeAuthValid(a) ==
    IF a.present THEN a
    ELSE [present |-> TRUE, valid |-> TRUE, subjectToken |-> Undefined,
          downstreamToken |-> Null]

\* lines 104-106: synthesize the context when the request carries none
SynthesizeAuth(a) ==
    IF a.present THEN a
    ELSE [present |-> TRUE, valid |-> ~enableAuth, subjectToken |-> Undefined,
          downstreamToken |-> Null]

\* lines 110-116: the guard of the exchange
ShouldExchange(a) ==
    /\ enableAuth
    /\ a.valid
    /\ PerformTokenExchangeSet
    /\ TokenExchangeConfigSet
    /\ Truthy(a.subjectToken)

\* mutant: the static fallback is cached too
CacheWriteStaticToo(ds, static) ==
    IF Truthy(ds) THEN ds ELSE IF Truthy(static) THEN static ELSE Null

\* lines 122-123: what the dispatcher writes to the session's cache, given
\* the token the exchange produced (Null when nothing is written)
CacheWrite(ds, static) == IF Truthy(ds) THEN ds ELSE Null

\* mutant: the token is a value captured once, not the file's current one
GetBackendAccessTokenCaptured == "st1"

\* main: getBackendAccessToken reads the configuration file on every call and
\* returns its BACKEND_ACCESS_TOKEN, undefined when the file has none
GetBackendAccessToken == backendToken

\* lines 122-139, with downstreamToken = ds after the (possible) exchange:
\* fallback to the static token, attach, hand the request to the transport
ResolveAndInvoke(rq, ds) ==
    LET static == GetBackendAccessToken
        tok == IF Truthy(ds) THEN ds
               ELSE IF Truthy(static) THEN static ELSE ds
    IN [rq EXCEPT
          !.pc = "handle",
          !.staticReads = IF Truthy(ds) THEN @ ELSE @ + 1,
          !.cacheWrites = IF Truthy(CacheWrite(ds, static)) THEN @ + 1 ELSE @,
          !.auth.downstreamToken = IF Truthy(tok) THEN tok ELSE @]

\* mutant: the guard of line 107 tests the context only, not the session id
PrepareDownstreamTokenAnySession(rq) ==
    LET a == SynthesizeAuth(rq.auth)
        r1 == [rq EXCEPT !.auth = a]
    IN IF a.valid
       THEN LET ds == GetDownstreamToken(sessions, rq.sessionId)
            IN IF ~Truthy(ds)
               THEN IF ShouldExchange(a)
                    THEN [r1 EXCEPT !.pc = "exchange",
                                    !.exchCalls = @ + 1,
                                    !.exchArg = a.subjectToken]
                    ELSE ResolveAndInvoke(r1, ds)
               ELSE [r1 EXCEPT !.pc = "handle", !.auth.downstreamToken = ds]
       ELSE [r1 EXCEPT !.pc = "handle"]

\* lines 101-121 and, when no exchange is awaited, on to line 139
PrepareDownstreamToken(rq) ==
    LET a == SynthesizeAuth(rq.auth)
        r1 == [rq EXCEPT !.auth = a]
    IN IF rq.sessionId # NoId /\ a.valid
       THEN LET ds == GetDownstreamToken(sessions, rq.sessionId)
            IN IF ~Truthy(ds)
               THEN IF ShouldExchange(a)
                    THEN [r1 EXCEPT !.pc = "exchange",
                                    !.exchCalls = @ + 1,
                                    !.exchArg = a.subjectToken]
                    ELSE ResolveAndInvoke(r1, ds)
               ELSE [r1 EXCEPT !.pc = "handle", !.auth.downstreamToken = ds]
       ELSE [r1 EXCEPT !.pc = "handle"]

\* lines 107-131 when no exchange is awaited: the registry after the segment
\* (the cache is written only on a miss, and only with a truthy token)
SessionsAfterPrepare(rq) ==
    LET a == SynthesizeAuth(rq.auth)
        ds == GetDownstreamToken(sessions, rq.sessionId)
    IN IF /\ rq.sessionId # NoId
          /\ a.valid
          /\ ~Truthy(ds)
          /\ ~ShouldExchange(a)
          /\ Truthy(CacheWrite(ds, backendToken))
       THEN SetDownstreamToken(sessions, rq.sessionId,
                               CacheWrite(ds, backendToken))
       ELSE sessions

\* mutant: a null result sends the request to the exchanger once more
AfterExchangeRetry(rq, result) ==
    IF ~Truthy(result) /\ rq.exchCalls < 2
    THEN [rq EXCEPT !.exchCalls = @ + 1]
    ELSE ResolveAndInvoke(rq, result)

\* lines 117-121 resumed: what the handler does with the exchanger's result
AfterExchange(rq, result) == ResolveAndInvoke(rq, result)

\* lines 90-98: the terminal bad-request response
BadRequest(rq) ==
    [rq EXCEPT !.pc = "rejected", !.status = 400, !.code = -32000,
               !.body = "Bad Request: No valid session ID provided",
               !.auth = NoAuth]

\* mutant: the tool-loading error is caught and initialization goes on
SwallowLoadError(rq) == [rq EXCEPT !.pc = "connect"]

\* lines 77-80: the catch block logs the error and rethrows it, so the
\* handler's promise rejects with the error loadTools rejected with
RethrowLoadError(rq) ==
    [rq EXCEPT !.pc = "failed", !.thrown = "loadToolsError", !.auth = NoAuth]

\* mutant: only a missing header is refused
SessionIdInvalidMissingOnly(s, sid) == sid = NoId

\* line 150: no session id, or no transport registered for it
SessionIdInvalid(s, sid) == sid = NoId \/ GetTransport(s, sid) = NoTransport

\* ------------------------------------------------------- auth middleware
\* the Authorization header: absent, or a first part and the rest of it
NoHeader == [prefix |-> "", rest |-> ""]

NoChallenge == [realm |-> "", error |-> "", as_uri |-> ""]
NoBody == [jsonrpc |-> "", code |-> 0, message |-> "", id |-> ""]
NoValidation == [kind |-> "none"]

IdleHttp ==
    [pc |-> "idle", method |-> "POST", header |-> NoHeader,
     status |-> 0, wwwAuth |-> NoChallenge, body |-> NoBody,
     validatorCalls |-> 0, validatorArg |-> Undefined,
     validation |-> NoValidation,
     nextCalls |-> 0, auth |-> NoAuth,
     thrown |-> "none"]     \* what the middleware's promise rejected with

\* the text a client can put after 'Bearer ': the two tokens the
\* authorization server issued, and tokens that fail one check each
BadTokens ==
    {"", "garbage", "noAlg", "noKid", "unkKid", "badSig", "expired",
     "wrongIss", "wrongAud"}
Tokens == SubjectTokens \cup BadTokens

Headers ==
    {NoHeader, [prefix |-> "Basic ", rest |-> "subA"],
     [prefix |-> "bearer ", rest |-> "subA"]}
    \cup {[prefix |-> "Bearer ", rest |-> t] : t \in Tokens}

\* config.resourceMetadataUrl
ResourceMetadataUrl == "https://mcp.example/.well-known/oauth-protected-resource"

\* the JSON-RPC error envelope { jsonrpc, error: { code, message }, id }
JsonRpcError(code, message) ==
    [jsonrpc |-> "2.0", code |-> code, message |-> message, id |-> Null]

\* ------------------------------------------------------- token validator
KnownKids == {"k1", "k2"}      \* the key identifiers in the key set

\* jwt.decode(token, { complete: true }): null for an undecodable token,
\* else the header the token carries
Decode(tok) ==
    CASE tok \in {"", "garbage"} ->
             [decoded |-> FALSE, alg |-> Undefined, kid |-> Undefined]
      [] tok = "noAlg" -> [decoded |-> TRUE, alg |-> Undefined, kid |-> "k1"]
      [] tok = "noKid" -> [decoded |-> TRUE, alg |-> "RS256", kid |-> Undefined]
      [] tok = "unkKid" -> [decoded |-> TRUE, alg |-> "RS256", kid |-> "k9"]
      [] tok = "subB" -> [decoded |-> TRUE, alg |-> "ES256", kid |-> "k2"]
      [] OTHER -> [decoded |-> TRUE, alg |-> "RS256", kid |-> "k1"]

\* createKeyGetter: no kid is an error without asking the key set; else
\* client.getSigningKey(kid), which fails for an unknown key identifier or
\* when the key set cannot be fetched
GetKey(hd, keyFetchOk) ==
    IF ~Truthy(hd.kid)
    THEN [err |-> "Missing 'kid' in token header", keyQueries |-> 0]
    ELSE IF hd.kid \notin KnownKids \/ ~keyFetchOk
    THEN [err |-> "signing key not found", keyQueries |-> 1]
    ELSE [err |-> "none", keyQueries |-> 1]

\* jwt.verify(token, getKey, { algorithms, audience, issuer }, callback):
\* the key, then the algorithm, signature, expiry, audience and issuer
JwtVerify(tok, algorithms, keyFetchOk) ==
    LET hd == Decode(tok)
        k == GetKey(hd, keyFetchOk)
    IN IF ~hd.decoded THEN [err |-> "jwt malformed", keyQueries |-> 0]
       ELSE IF k.err # "none" THEN k
       ELSE [keyQueries |-> k.keyQueries,
             err |-> CASE hd.alg \notin algorithms -> "invalid algorithm"
                       [] tok = "badSig" -> "invalid signature"
                       [] tok = "expired" -> "jwt expired"
                       [] tok = "wrongAud" -> "jwt audience invalid"
                       [] tok = "wrongIss" -> "jwt issuer invalid"
                       [] OTHER -> "none"]

\* mutant: a missing algorithm is replaced by a default one
AlgorithmOrDefault(hd) == IF Truthy(hd.alg) THEN hd.alg ELSE "RS256"

\* decodedToken?.header?.alg
AlgorithmOf(hd) == IF hd.decoded THEN hd.alg ELSE Undefined

\* mutant: the invalid result tells which check failed
InvalidResultWithReason(err) == [valid |-> FALSE, error |-> err]

\* the catch block: the error is logged, the result is { valid: false }
InvalidResult(err) == [valid |-> FALSE]

\* the subject the verified payload names (payload.sub)
UserOf(tok) == IF tok = "subA" THEN "userA" ELSE "userB"

ValidResult(tok) ==
    [valid |-> TRUE, userId |-> UserOf(tok), subjectToken |-> tok]

\* validateAccessToken(token, getKey, config): what it resolves with, and
\* what it did on the way (calls of jwt.verify with their algorithms
\* option, calls of client.getSigningKey)
ValidateAccessToken(tok, keyFetchOk) ==
    LET alg == AlgorithmOf(Decode(tok))
        v == JwtVerify(tok, {alg}, keyFetchOk)
    IN IF ~Truthy(alg)
       THEN [kind |-> "resolved",
             result |-> InvalidResult("Missing 'alg' in token header"),
             verifyCalls |-> 0, algorithms |-> {}, keyQueries |-> 0]
       ELSE [kind |-> "resolved",
             result |-> IF v.err = "none" THEN ValidResult(tok)
                        ELSE InvalidResult(v.err),
             verifyCalls |-> 1, algorithms |-> {alg},
             keyQueries |-> v.keyQueries]

\* ------------------------------------------------- createAuthMiddleware
StartsWithBearer(hd) == hd.prefix = "Bearer "

\* req.auth = validationResult, as the handlers read it
AttachedContext(result) ==
    [present |-> TRUE, valid |-> result.valid,
     subjectToken |-> IF "subjectToken" \in DOMAIN result
                      THEN result.subjectToken ELSE Undefined,
     downstreamToken |-> Undefined]

\* the middleware up to its await: the header check and the validator call
AuthMiddlewareEntry(hd) ==
    LET h == [IdleHttp EXCEPT !.header = hd]
    IN IF ~StartsWithBearer(hd)
       THEN [h EXCEPT
               !.pc = "responded", !.status = 401,
               !.wwwAuth = [realm |-> "mcp", error |-> "",
                            as_uri |-> ResourceMetadataUrl],
               !.body = JsonRpcError(-32001, "Unauthorized")]
       ELSE [h EXCEPT !.pc = "validate", !.validatorCalls = 1,
                      !.validatorArg = hd.rest]

\* mutant: the rejection of the validator leaves the middleware
AuthenticationErrorEscapes(h, error) ==
    [h EXCEPT !.pc = "responded", !.thrown = error]

\* the catch block of the middleware
AuthenticationError(h, error) ==
    [h EXCEPT
       !.pc = "responded", !.status = 500,
       !.body = JsonRpcError(-32603,
                             "Internal server error during authentication")]

\* mutant: the result's valid flag is not looked at
IsValidAlways(result) == TRUE

\* validationResult.valid
IsValid(result) == result.valid

\* the middleware after its await, given how the validator call settled
AuthMiddlewareResume(h, out) ==
    LET h1 == [h EXCEPT !.validation = out]
    IN IF out.kind = "rejected" THEN AuthenticationError(h1, out.error)
       ELSE IF ~IsValid(out.result)
       THEN [h1 EXCEPT
               !.pc = "responded", !.status = 401,
               !.wwwAuth = [realm |-> "mcp", error |-> "invalid_token",
                            as_uri |-> ResourceMetadataUrl],
               !.body = JsonRpcError(-32001, "Invalid or expired token")]
       ELSE [h1 EXCEPT !.pc = "next", !.auth = AttachedContext(out.result),
                       !.nextCalls = @ + 1]

\* what a validator handed to createAuthMiddleware can settle with: a
\* valid or invalid result, or a rejection with an Error or another value
InjectedOutcomes(tok) ==
    {[kind |-> "resolved", result |-> ValidResult(tok)],
     [kind |-> "resolved", result |-> [valid |-> TRUE, userId |-> "user-123"]],
     [kind |-> "resolved", result |-> [valid |-> FALSE]],
     [kind |-> "rejected", error |-> "Error: JWKS fetch failed"],
     [kind |-> "rejected", error |-> "String error"]}

\* ------------------------------------------------------------- exchanger
\* line 15: cachedAuthServerConfig = null
NoConfig == 0

\* the Configuration object that the discovery awaited by the call of
\* request r resolves with: every discovery yields an object of its own
DiscoveredConfig(r) == r

\* cachedAuthServerConfig is null; no performTokenExchange call in flight;
\* log: the first error line the exchanger wrote to the console for a request
IdleOAuth ==
    [cached |-> NoConfig, stage |-> [r \in Reqs |-> "none"],
     log |-> [r \in Reqs |-> "none"]]

\* performTokenExchange is called for request r: it awaits
\* getOAuthServerConfiguration, which returns the cached configuration if
\* there is one and else awaits oidc_client.discovery
CallExchanger(o, r) ==
    [o EXCEPT !.stage[r] = IF o.cached # NoConfig THEN "grant"
                           ELSE "discovery",
              !.log[r] = "none"]

\* mutant: the outcome of the discovery is cached even when it failed
DiscoveryFailureCached(o, r) ==
    [o EXCEPT !.cached = DiscoveredConfig(r),
              !.stage[r] = "none",
              !.log[r] = "Failed to initialize OpenID client"]

\* lines 34-38: the discovery awaited for request r rejected; the assignment
\* of line 26 did not happen, the error is logged and a new one thrown
DiscoveryFailure(o, r) ==
    [o EXCEPT !.stage[r] = "none",
              !.log[r] = "Failed to initialize OpenID client"]

\* what oidc_client.genericGrantRequest can settle with: a rejection
\* (network failure, grant refused), a response without access_token, a
\* response with the access token issued for the subject token
GrantOutcomes(sub) ==
    {[kind |-> "rejected", access_token |-> Undefined],
     [kind |-> "response", access_token |-> Undefined],
     [kind |-> "response", access_token |-> AccessTokenFor(sub)]}

\* mutant: the error is thrown on to the caller
ExchangeCatchRethrows(error) == [kind |-> "threw", value |-> Null]

\* the catch block of performTokenExchange: log the error, return null
ExchangeCatch(error) == [kind |-> "returned", value |-> Null]

\* lines 76-86: the end of performTokenExchange, given how the grant
\* request settled
AfterGrant(g) ==
    IF g.kind = "rejected" THEN ExchangeCatch("Error during token exchange")
    ELSE IF ~Truthy(g.access_token) THEN [kind |-> "returned", value |-> Null]
    ELSE [kind |-> "returned", value |-> g.access_token]

\* what the exchanger writes to the console on that way
GrantLog(g) ==
    IF g.kind = "rejected" THEN "Error during token exchange"
    ELSE IF ~Truthy(g.access_token)
    THEN "Token exchange succeeded but no access_token was returned"
    ELSE "none"

\* --------------------------------------------------------------- actions
\* --------------------------------------------- configuration (main)
\* a string field of config.json: absent, empty, or a value
ConfigStrings == {Undefined, "", "set"}

\* SERVER_PORT: absent, or a number
NoPort == [kind |-> "undefined", value |-> 0]
Port(n) == [kind |-> "number", value |-> n]
ConfigPorts == {NoPort, Port(0), Port(3000), Port(65536)}

\* the fields of ServerConfig that validateConfig and deriveConfig read
ServerConfigs ==
    [BACKEND_API_BASE : {Undefined, "set"},
     SERVER_PORT : ConfigPorts,
     MCP_SERVER_BASE_URL : ConfigStrings,
     AUTHZ_SERVER_BASE_URL : ConfigStrings,
     MCP_SERVER_CLIENT_ID : ConfigStrings,
     MCP_SERVER_CLIENT_SECRET : ConfigStrings,
     TLS_KEY_PATH : ConfigStrings,
     TLS_CERT_PATH : ConfigStrings]

\* mutant: of each pair only the first field is required
ValidateConfigFirstOfPair(c) ==
    IF ~Truthy(c.BACKEND_API_BASE)
    THEN "BACKEND_API_BASE is required in configuration"
    ELSE IF c.SERVER_PORT.kind = "undefined"
    THEN "SERVER_PORT is required in configuration"
    ELSE IF c.SERVER_PORT.value < 1 \/ c.SERVER_PORT.value > 65535
    THEN "SERVER_PORT must be between 1 and 65535"
    ELSE IF (Truthy(c.MCP_SERVER_BASE_URL) \/ Truthy(c.AUTHZ_SERVER_BASE_URL))
            /\ ~Truthy(c.MCP_SERVER_BASE_URL)
    THEN "MCP_SERVER_BASE_URL is required when authentication is enabled"
    ELSE IF (Truthy(c.TLS_KEY_PATH) \/ Truthy(c.TLS_CERT_PATH))
            /\ ~Truthy(c.TLS_KEY_PATH)
    THEN "TLS_KEY_PATH is required when TLS is enabled"
    ELSE "ok"

\* validateConfig: the message of the ConfigValidationError it throws, or
\* "ok" when it returns
ValidateConfig(c) ==
    IF ~Truthy(c.BACKEND_API_BASE)
    THEN "BACKEND_API_BASE is required in configuration"
    ELSE IF c.SERVER_PORT.kind = "undefined"
    THEN "SERVER_PORT is required in configuration"
    ELSE IF c.SERVER_PORT.value < 1 \/ c.SERVER_PORT.value > 65535
    THEN "SERVER_PORT must be between 1 and 65535"
    ELSE IF (Truthy(c.MCP_SERVER_BASE_URL) \/ Truthy(c.AUTHZ_SERVER_BASE_URL))
            /\ ~Truthy(c.MCP_SERVER_BASE_URL)
    THEN "MCP_SERVER_BASE_URL is required when authentication is enabled"
    ELSE IF (Truthy(c.MCP_SERVER_BASE_URL) \/ Truthy(c.AUTHZ_SERVER_BASE_URL))
            /\ ~Truthy(c.AUTHZ_SERVER_BASE_URL)
    THEN "AUTHZ_SERVER_BASE_URL is required when authentication is enabled"
    ELSE IF (Truthy(c.TLS_KEY_PATH) \/ Truthy(c.TLS_CERT_PATH))
            /\ ~Truthy(c.TLS_KEY_PATH)
    THEN "TLS_KEY_PATH is required when TLS is enabled"
    ELSE IF (Truthy(c.TLS_KEY_PATH) \/ Truthy(c.TLS_CERT_PATH))
            /\ ~Truthy(c.TLS_CERT_PATH)
    THEN "TLS_CERT_PATH is required when TLS is enabled"
    ELSE "ok"

\* mutant: token exchange is enabled by the client id alone
DeriveConfigIdOnly(c) ==
    [enableAuth |-> Truthy(c.MCP_SERVER_BASE_URL)
                      /\ Truthy(c.AUTHZ_SERVER_BASE_URL),
     enableTokenExchange |-> Truthy(c.MCP_SERVER_CLIENT_ID),
     enableHttps |-> Truthy(c.TLS_KEY_PATH) /\ Truthy(c.TLS_CERT_PATH)]

\* deriveConfig, the three feature switches
DeriveConfig(c) ==
    [enableAuth |-> Truthy(c.MCP_SERVER_BASE_URL)
                      /\ Truthy(c.AUTHZ_SERVER_BASE_URL),
     enableTokenExchange |-> Truthy(c.MCP_SERVER_CLIENT_ID)
                               /\ Truthy(c.MCP_SERVER_CLIENT_SECRET),
     enableHttps |-> Truthy(c.TLS_KEY_PATH) /\ Truthy(c.TLS_CERT_PATH)]

\* a configuration with the required fields, and the two pairs as given
ConfigWith(auth, exchange) ==
    [BACKEND_API_BASE |-> "set",
     SERVER_PORT |-> Port(3000),
     MCP_SERVER_BASE_URL |-> IF auth THEN "set" ELSE Undefined,
     AUTHZ_SERVER_BASE_URL |-> IF auth THEN "set" ELSE Undefined,
     MCP_SERVER_CLIENT_ID |-> IF exchange THEN "set" ELSE Undefined,
     MCP_SERVER_CLIENT_SECRET |-> IF exchange THEN "set" ELSE Undefined,
     TLS_KEY_PATH |-> Undefined,
     TLS_CERT_PATH |-> Undefined]

\* the process before main() has run
StartingProc ==
    [stage |-> "start", exitCode |-> -1, error |-> "none",
     enableHttps |-> FALSE,
     closing |-> FALSE,        \* server.close() has been called
     closed |-> FALSE,         \* the server's 'close' event was emitted
     conns |-> 0,              \* open connections
     closeAll |-> TRUE,        \* the runtime has server.closeAllConnections
     signals |-> 0,            \* SIGINT/SIGTERM handled so far
     timers |-> <<>>]          \* force timers: still set, ms left

\* the process once createServer has returned the listening server
ListeningProc(https) ==
    [StartingProc EXCEPT !.stage = "listening", !.enableHttps = https]

\* ------------------------------------------------ loadTools, registerTools
\* tool definitions: two names, each with two different bodies
ToolDefs ==
    {[name |-> "t1", metadata |-> "m1", handler |-> "h1"],
     [name |-> "t1", metadata |-> "m2", handler |-> "h2"],
     [name |-> "t2", metadata |-> "m1", handler |-> "h2"],
     [name |-> "t2", metadata |-> "m2", handler |-> "h1"]}

\* what a factory without a return value hands back: undefined, whose
\* .name cannot be read
NotADefinition ==
    [name |-> Undefined, metadata |-> Undefined, handler |-> Undefined]

SeqsUpTo(S, n) == UNION {[1 .. k -> S] : k \in 0 .. n}

\* the entries of a tools directory: a file that is not .js; a .js file
\* whose import fails, that has no default export, whose default export
\* is not a function, whose factory throws or rejects, returns an array of
\* definitions, or returns one value that is not an array
DirEntries ==
    {[kind |-> k, value |-> <<>>] :
        k \in {"notJs", "importFails", "noDefault", "defaultNotFunction",
               "factoryThrows", "factoryRejects"}}
    \cup {[kind |-> "array", value |-> l] : l \in SeqsUpTo(ToolDefs, MaxDefs)}
    \cup {[kind |-> "single", value |-> <<d>>] :
             d \in ToolDefs \cup {NotADefinition}}

Directories == SeqsUpTo(DirEntries, MaxFiles)

\* no loadTools call has been made
IdleLoader ==
    [pc |-> "idle", exists |-> FALSE, readable |-> FALSE, dir |-> <<>>,
     files |-> <<>>,        \* toolFiles: the .js entries
     i |-> 0,               \* the file the for loop is at
     tools |-> <<>>,        \* the array loadTools builds and returns
     errors |-> {},         \* the files whose loading was logged as an error
     registered |-> <<>>]   \* the registerTool calls that went through

\* line 21: .filter((file) => file.endsWith('.js'))
IsJs(e) == e.kind # "notJs"

\* the for loop moves on to the next file, or loadTools returns
NextFile(l) ==
    IF l.i + 1 > Len(l.files)
    THEN [l EXCEPT !.pc = "returned", !.i = @ + 1]
    ELSE [l EXCEPT !.pc = "import", !.i = @ + 1]

\* mutant: an error in one file ends the whole call
LoadErrorAborts(l) == [l EXCEPT !.pc = "rejected", !.tools = <<>>]

\* lines 37-39: the catch inside the loop logs the error; the loop goes on
LoadError(l) == NextFile([l EXCEPT !.errors = @ \cup {l.i}])

\* lines 13-26: loadTools up to its first await
LoadToolsEntry(exists, readable, dir) ==
    LET l == [IdleLoader EXCEPT !.exists = exists, !.readable = readable,
                                !.dir = dir]
    IN IF ~exists THEN [l EXCEPT !.pc = "returned"]
       ELSE IF ~readable THEN [l EXCEPT !.pc = "rejected"]
       ELSE NextFile([l EXCEPT !.files = SelectSeq(dir, IsJs)])

\* lines 26-36: await import(toolPath) settles
AfterImport(l) ==
    LET m == l.files[l.i]
    IN IF m.kind = "importFails" THEN LoadError(l)
       ELSE IF m.kind \in {"noDefault", "defaultNotFunction"} THEN NextFile(l)
       ELSE IF m.kind = "factoryThrows" THEN LoadError(l)
       ELSE [l EXCEPT !.pc = "factory"]

\* lines 30-35: await toolModule.default(serverConfig) settles
AfterFactory(l) ==
    LET m == l.files[l.i]
    IN IF m.kind = "factoryRejects" THEN LoadError(l)
       ELSE IF m.kind = "array"
       THEN NextFile([l EXCEPT !.tools = @ \o m.value])
       ELSE NextFile([l EXCEPT !.tools = Append(@, m.value[1])])

\* mutant: the metadata block is not handed over
RegisterToolCallNoMetadata(tool) ==
    [name |-> tool.name, metadata |-> Undefined, handler |-> tool.handler]

\* line 73: server.registerTool(tool.name, tool.metadata, tool.handler)
RegisterToolCall(tool) ==
    [name |-> tool.name, metadata |-> tool.metadata, handler |-> tool.handler]

\* the call throws: reading .name of undefined is a TypeError, and the
\* server refuses a name it already holds
RegisterToolThrows(tool, done) ==
    \/ tool = NotADefinition
    \/ \E k \in 1 .. Len(done) : done[k].name = tool.name

\* lines 72-75: the loop over the tools loadTools returned, up to its end
\* or to the first call that throws
RECURSIVE RegisterAll(_, _)
RegisterAll(tools, done) ==
    IF tools = <<>> THEN [registered |-> done, threw |-> FALSE]
    ELSE IF RegisterToolThrows(Head(tools), done)
    THEN [registered |-> done, threw |-> TRUE]
    ELSE RegisterAll(Tail(tools), Append(done, RegisterToolCall(Head(tools))))

\* lines 69-80: registerTools after its await of loadTools; the catch logs
\* and rethrows
AfterLoadTools(l) ==
    IF l.pc = "rejected" THEN [l EXCEPT !.pc = "failed"]
    ELSE LET out == RegisterAll(l.tools, <<>>)
         IN [l EXCEPT !.pc = IF out.threw THEN "failed" ELSE "registered",
                      !.registered = out.registered]

\* ------------------------------------------------------- shutdown (main)
\* line 811, in milliseconds
SHUTDOWN_TIMEOUT_MS == 5000

\* mutant: no force timer is set
ForceShutdownTimerNone(timers) == timers

\* lines 817-820: setTimeout(..., SHUTDOWN_TIMEOUT_MS)
ForceShutdownTimer(timers) ==
    Append(timers, [set |-> TRUE, left |-> SHUTDOWN_TIMEOUT_MS])

\* the timers that are still set
Pending(timers) == {k \in 1 .. Len(timers) : timers[k].set}

\* handleShutdown(signal), lines 813-830: set the force timer, call
\* server.close(callback), then server.closeAllConnections?.()
HandleShutdown(p) ==
    [p EXCEPT !.signals = @ + 1,
              !.timers = ForceShutdownTimer(@),
              !.closing = TRUE,
              !.conns = IF p.closeAll THEN 0 ELSE @]

\* lines 822-826: the callback of server.close, run on the 'close' event:
\* clearTimeout(forceShutdownTimer); process.exit(0).  The callback of the
\* first server.close call runs first, and the process ends in it
CloseCallback(p) ==
    [p EXCEPT !.closed = TRUE,
              !.timers = [@ EXCEPT ![1].set = FALSE],
              !.stage = "exited",
              !.exitCode = 0]

\* lines 817-820: the timer's callback: process.exit(1)
ForceShutdown(p) == [p EXCEPT !.stage = "exited", !.exitCode = 1]

\* no request has arrived yet: the registry is empty, nothing is in flight
QuietInit ==
    /\ sessions = <<>>
    /\ transports = <<>>
    /\ req = [r \in Reqs |-> IdleReq]
    /\ loadToolsCalls = 0
    /\ http = [r \in Reqs |-> IdleHttp]
    /\ oauth = IdleOAuth

Init ==
    /\ QuietInit
    /\ backendToken \in StaticTokens \cup {Undefined}
    /\ enableAuth \in BOOLEAN
    /\ enableTokenExchange \in BOOLEAN
    /\ config = ConfigWith(enableAuth, enableTokenExchange)
    /\ proc = ListeningProc(FALSE)
    /\ loader = IdleLoader

\* POST /mcp arrives at createMcpRequestHandler: lines 35-99 and, on the
\* reuse path, on to the first await (the exchange or handleRequest)
McpPost(r, sid, init, a) ==
    /\ req[r].pc \in {"idle", "rejected", "failed"}
    /\ LET rq == [IdleReq EXCEPT !.sessionId = sid, !.auth = a,
                                 \* isInitializeRequest(req.body) is evaluated
                                 \* only when there is no session id
                                 !.isInit = (sid = NoId /\ init)]
       IN IF IsReuse(sid)
          THEN LET r1 == [rq EXCEPT !.transport = GetTransport(sessions, sid)]
               IN /\ req' = [req EXCEPT ![r] = PrepareDownstreamToken(r1)]
                  /\ sessions' = SessionsAfterPrepare(r1)
                  /\ UNCHANGED <<transports, loadToolsCalls>>
          ELSE IF IsNewSession(sid, init)
          THEN /\ Len(transports) < MaxTransports
               /\ transports' = Append(transports, NewTransport)
               /\ loadToolsCalls' = loadToolsCalls + 1
               /\ req' = [req EXCEPT ![r] =
                            [rq EXCEPT !.transport = Len(transports) + 1,
                                       !.pc = "loadTools"]]
               /\ UNCHANGED sessions
          ELSE /\ req' = [req EXCEPT ![r] = BadRequest(rq)]
               /\ UNCHANGED <<sessions, transports, loadToolsCalls>>
    /\ UNCHANGED <<backendToken, enableAuth, enableTokenExchange>>

\* await registerTools() settles: lines 69-87.  On success every tool is
\* registered and server.connect(transport) is called; a rejection of
\* loadTools is rethrown and the handler's promise rejects
LoadToolsSettles(r, ok) ==
    /\ req[r].pc = "loadTools"
    /\ req' = [req EXCEPT ![r] =
                  IF ok THEN [@ EXCEPT !.pc = "connect",
                                       !.toolsRegistered = TRUE]
                  ELSE RethrowLoadError(@)]
    /\ UNCHANGED <<sessions, transports, backendToken, enableAuth,
                   enableTokenExchange, loadToolsCalls>>
    /\ UNCHANGED pipeline

\* await server.connect(transport) resolves, then lines 101-139: the request
\* carries no session id, so no credential is resolved for it
ConnectResolves(r) ==
    /\ req[r].pc = "connect"
    /\ transports' = [transports EXCEPT ![req[r].transport].connected = TRUE]
    /\ req' = [req EXCEPT ![r] = PrepareDownstreamToken(req[r])]
    /\ sessions' = SessionsAfterPrepare(req[r])
    /\ UNCHANGED <<backendToken, enableAuth, enableTokenExchange,
                   loadToolsCalls>>
    /\ UNCHANGED pipeline

\* await config.performTokenExchange(...) resolves with an access token or
\* null (it never rejects), then lines 122-139
ExchangeResolves(r, ok) ==
    /\ req[r].pc = "exchange"
    /\ LET result == IF ok THEN AccessTokenFor(req[r].exchArg) ELSE Null
           rq == AfterExchange(req[r], result)
           w == CacheWrite(result, backendToken)
       IN /\ req' = [req EXCEPT ![r] = rq]
          /\ sessions' = IF rq.pc = "handle" /\ Truthy(w)
                         THEN SetDownstreamToken(sessions, req[r].sessionId, w)
                         ELSE sessions
    /\ UNCHANGED <<transports, backendToken, enableAuth,
                   enableTokenExchange, loadToolsCalls>>

\* the transport processes the request handed to it (line 139, line 155).
\* For an initialization message on a transport without a session it either
\* confirms session start (generates the identifier and runs
\* onsessioninitialized, lines 47-51) or refuses the message; for a DELETE
\* it closes, which runs onclose (lines 58-62)
TransportHandles(r, confirm) ==
    /\ req[r].pc = "handle"
    /\ LET t == req[r].transport
       IN IF /\ req[r].method = "POST"
             /\ req[r].isInit
             /\ transports[t].sessionId = NoId
             /\ confirm
          THEN LET id == RandomUUID
               IN /\ transports' = [transports EXCEPT ![t].sessionId = id]
                  /\ sessions' = AddSession(sessions, id, t)
          ELSE IF req[r].method = "DELETE"
          THEN /\ transports' = [transports EXCEPT ![t].closed = TRUE]
               /\ sessions' = DeleteSession(sessions, transports[t].sessionId)
          ELSE UNCHANGED <<transports, sessions>>
    /\ req' = [req EXCEPT ![r] = IdleReq]
    /\ UNCHANGED <<backendToken, enableAuth, enableTokenExchange,
                   loadToolsCalls>>
    /\ UNCHANGED pipeline

\* a transport with a session reports closure: lines 58-62
TransportCloses(t) ==
    /\ t \in DOMAIN transports
    /\ transports[t].sessionId # NoId
    /\ ~transports[t].closed
    /\ transports' = [transports EXCEPT ![t].closed = TRUE]
    /\ sessions' = DeleteSession(sessions, transports[t].sessionId)
    /\ UNCHANGED <<req, backendToken, enableAuth,
                   enableTokenExchange, loadToolsCalls>>
    /\ UNCHANGED pipeline

\* GET or DELETE /mcp arrives at createSessionRequestHandler: lines 148-155
SessionRequest(r, m, sid) ==
    /\ req[r].pc \in {"idle", "rejected", "failed"}
    /\ LET rq == [IdleReq EXCEPT !.method = m, !.sessionId = sid]
       IN req' = [req EXCEPT ![r] =
            IF SessionIdInvalid(sessions, sid)
            THEN [rq EXCEPT !.pc = "rejected", !.status = 400,
                            !.body = "Invalid or missing session ID"]
            ELSE [rq EXCEPT !.pc = "handle",
                            !.transport = GetTransport(sessions, sid)]]
    /\ UNCHANGED <<sessions, transports, backendToken, enableAuth,
                   enableTokenExchange, loadToolsCalls>>

\* the operator rewrites BACKEND_ACCESS_TOKEN in the configuration file
ConfigFileChanges(v) ==
    /\ v # backendToken
    /\ backendToken' = v
    /\ UNCHANGED <<sessions, transports, req, enableAuth,
                   enableTokenExchange, loadToolsCalls>>
    /\ UNCHANGED pipeline

\* the steps of the routes' handlers for requests in the given slots, in a
\* run that accepts at most limit initializations
DispatcherSteps(slots, limit) ==
    \/ \E r \in slots, sid \in Ids \cup {NoId}, init \in BOOLEAN,
          a \in ArrivingAuths :
             /\ McpPost(r, sid, init, a)
             /\ Len(transports') <= limit
             /\ UNCHANGED pipeline
    \/ \E r \in slots, ok \in BOOLEAN : LoadToolsSettles(r, ok)
    \/ \E r \in slots : ConnectResolves(r)
    \/ \E r \in slots, ok \in BOOLEAN :
          ExchangeResolves(r, ok) /\ UNCHANGED pipeline
    \/ \E r \in slots, confirm \in BOOLEAN : TransportHandles(r, confirm)
    \/ \E t \in 1 .. limit : TransportCloses(t)
    \/ \E r \in slots, m \in {"GET", "DELETE"}, sid \in Ids \cup {NoId} :
          SessionRequest(r, m, sid) /\ UNCHANGED pipeline
    \/ \E v \in StaticTokens \cup {Undefined} : ConfigFileChanges(v)

Next == DispatcherSteps(Reqs, MaxTransports)

Spec == Init /\ [][Next]_vars

\* a run with one session: concurrent requests, all on the one transport
SingleNext == DispatcherSteps(Reqs, MaxSingleTransports)

SingleSpec == Init /\ [][SingleNext]_vars

\* a run that handles one request at a time, over several sessions
SerialNext == DispatcherSteps(1 .. MaxSerialReq, MaxTransports)

SerialSpec == Init /\ [][SerialNext]_vars

\* ------------------------------------------- the middleware on its own
\* what the middleware and the validator never touch
handlers == <<sessions, transports, req, backendToken, enableAuth,
              enableTokenExchange, loadToolsCalls>>

Methods == {"POST", "GET", "DELETE"}

\* the middleware is called with a request: lines 183-206, to its await
MiddlewareCalled(r, hd) ==
    /\ http[r].pc # "validate"
    /\ http' = [http EXCEPT ![r] = AuthMiddlewareEntry(hd)]
    /\ UNCHANGED <<handlers, oauth>>
    /\ UNCHANGED boot

\* await config.validateAccessToken(token) settles, the validator being
\* any function handed to createAuthMiddleware; next is the caller's
InjectedValidatorSettles(r, out) ==
    /\ http[r].pc = "validate"
    /\ http' = [http EXCEPT ![r] = AuthMiddlewareResume(@, out)]
    /\ UNCHANGED <<handlers, oauth>>
    /\ UNCHANGED boot

\* the same with the validator main() hands over: validateAccessToken with
\* the key getter of the key-set client
JwtValidatorSettles(r, keyFetchOk) ==
    /\ http[r].pc = "validate"
    /\ http' = [http EXCEPT ![r] =
                  AuthMiddlewareResume(@, ValidateAccessToken(@.validatorArg,
                                                             keyFetchOk))]
    /\ UNCHANGED <<handlers, oauth>>
    /\ UNCHANGED boot

MiddlewareNext ==
    \/ \E r \in Reqs, hd \in Headers : MiddlewareCalled(r, hd)
    \/ \E r \in Reqs : \E out \in InjectedOutcomes(http[r].validatorArg) :
          InjectedValidatorSettles(r, out)
    \/ \E r \in Reqs, keyFetchOk \in BOOLEAN : JwtValidatorSettles(r, keyFetchOk)

\* main() creates the middleware only with authentication enabled
MiddlewareInit == Init /\ enableAuth

MiddlewareSpec == MiddlewareInit /\ [][MiddlewareNext]_vars

\* ------------------------------------ the /mcp routes as main() wires them
\* the Authorization headers sent to the routes
RouteHeaders ==
    {NoHeader, [prefix |-> "Bearer ", rest |-> "expired"],
     [prefix |-> "Bearer ", rest |-> "subA"]}

\* main(): authMiddleware is created inside `if (derivedConfig.enableAuth)`
AuthMiddlewareCreated == enableAuth

\* mutant: the routes are always mounted without the middleware
UseAuthMiddlewareNever == FALSE

\* createApp line 71: derivedConfig.enableAuth && appConfig.authMiddleware,
\* the middleware being created by main() exactly when enableAuth holds
UseAuthMiddleware == enableAuth /\ AuthMiddlewareCreated

\* the route's handler: mcpRequestHandler for POST, sessionRequestHandler
\* for GET and DELETE.  The handler is the first to read the session
\* header and the body, so they are drawn when it runs
RouteHandler(r, m, sid, init, a) ==
    IF m = "POST" THEN McpPost(r, sid, init, a)
    ELSE SessionRequest(r, m, sid)

\* a request arrives at a route mounted behind the middleware: the
\* middleware runs to its await
RouteAuthenticated(r, m, hd) ==
    /\ UseAuthMiddleware
    /\ http[r].pc # "validate"
    /\ req[r].pc \in {"idle", "rejected", "failed"}
    /\ http' = [http EXCEPT ![r] = [AuthMiddlewareEntry(hd) EXCEPT !.method = m]]
    /\ req' = [req EXCEPT ![r] = IdleReq]
    /\ UNCHANGED <<sessions, transports, backendToken, enableAuth,
                   enableTokenExchange, loadToolsCalls, oauth>>
    /\ UNCHANGED boot

\* a request arrives at a route mounted without the middleware: the
\* handler runs at once, with no auth context on the request
RouteOpen(r, m, sid, init) ==
    /\ ~UseAuthMiddleware
    /\ RouteHandler(r, m, sid, init, NoAuth)
    /\ http' = [http EXCEPT ![r] = [IdleHttp EXCEPT !.method = m]]
    /\ UNCHANGED oauth
    /\ UNCHANGED boot

\* the validator call of the middleware settles; on a valid result next()
\* runs the route's handler in the same turn
ValidatorSettles(r, keyFetchOk, sid, init) ==
    /\ http[r].pc = "validate"
    /\ LET h == AuthMiddlewareResume(
                    http[r], ValidateAccessToken(http[r].validatorArg,
                                                 keyFetchOk))
       IN /\ http' = [http EXCEPT ![r] = h]
          /\ IF h.nextCalls > http[r].nextCalls
             THEN RouteHandler(r, h.method, sid, init, h.auth)
             ELSE UNCHANGED handlers
    /\ UNCHANGED oauth
    /\ UNCHANGED boot

\* a run with one session
AuthNext ==
    \/ \E r \in Reqs, m \in Methods, hd \in RouteHeaders :
          RouteAuthenticated(r, m, hd)
    \/ \E r \in Reqs, m \in Methods, sid \in Ids \cup {NoId}, init \in BOOLEAN :
          /\ RouteOpen(r, m, sid, init)
          /\ Len(transports') <= MaxSingleTransports
    \/ \E r \in Reqs, keyFetchOk \in BOOLEAN, sid \in Ids \cup {NoId},
          init \in BOOLEAN :
             /\ ValidatorSettles(r, keyFetchOk, sid, init)
             /\ Len(transports') <= MaxSingleTransports
    \/ \E r \in Reqs, ok \in BOOLEAN : LoadToolsSettles(r, ok)
    \/ \E r \in Reqs : ConnectResolves(r)
    \/ \E r \in Reqs, ok \in BOOLEAN :
          ExchangeResolves(r, ok) /\ UNCHANGED pipeline
    \/ \E r \in Reqs, confirm \in BOOLEAN : TransportHandles(r, confirm)
    \/ \E t \in 1 .. MaxSingleTransports : TransportCloses(t)
    \/ \E v \in StaticTokens \cup {Undefined} : ConfigFileChanges(v)

AuthSpec == Init /\ [][AuthNext]_vars

\* ----------------------------------- the dispatcher with the exchanger
\* the dispatcher's await of performTokenExchange ends: with a value the
\* handler resumes (lines 117-139); a rejection would leave the handler,
\* which has no catch around the call
ExchangerSettles(r, out) ==
    IF out.kind = "threw"
    THEN /\ req' = [req EXCEPT ![r] =
                      [@ EXCEPT !.pc = "failed", !.thrown = "exchangeError",
                                !.auth = NoAuth]]
         /\ UNCHANGED <<sessions, transports, backendToken, enableAuth,
                        enableTokenExchange, loadToolsCalls>>
    ELSE ExchangeResolves(r, Truthy(out.value))

\* POST /mcp arrives; when the dispatcher calls the exchanger, the
\* exchanger runs to its first await in the same turn
McpPostExchanging(r, sid, init, a) ==
    /\ McpPost(r, sid, init, a)
    /\ oauth' = IF req'[r].pc = "exchange" THEN CallExchanger(oauth, r)
                ELSE [oauth EXCEPT !.stage[r] = "none", !.log[r] = "none"]
    /\ UNCHANGED http
    /\ UNCHANGED boot

\* GET or DELETE /mcp arrives: no exchange
SessionRequestPlain(r, m, sid) ==
    /\ SessionRequest(r, m, sid)
    /\ oauth' = [oauth EXCEPT !.stage[r] = "none", !.log[r] = "none"]
    /\ UNCHANGED http
    /\ UNCHANGED boot

\* await oidc_client.discovery(...) settles: on success the configuration
\* is cached and the grant request is sent; a failure is rethrown by
\* getOAuthServerConfiguration and caught by performTokenExchange
DiscoverySettles(r, ok) ==
    /\ oauth.stage[r] = "discovery"
    /\ IF ok
       THEN /\ oauth' = [oauth EXCEPT !.cached = DiscoveredConfig(r),
                                      !.stage[r] = "grant"]
            /\ UNCHANGED handlers
       ELSE /\ oauth' = DiscoveryFailure(oauth, r)
            /\ ExchangerSettles(
                  r, ExchangeCatch("Failed to initialize OAuth client for token exchange"))
    /\ UNCHANGED http
    /\ UNCHANGED boot

\* await oidc_client.genericGrantRequest(...) settles
GrantSettles(r, g) ==
    /\ oauth.stage[r] = "grant"
    /\ oauth' = [oauth EXCEPT !.stage[r] = "none", !.log[r] = GrantLog(g)]
    /\ ExchangerSettles(r, AfterGrant(g))
    /\ UNCHANGED http
    /\ UNCHANGED boot

\* a run with one session
ExchangeNext ==
    \/ \E r \in Reqs, sid \in Ids \cup {NoId}, init \in BOOLEAN,
          a \in ArrivingAuths :
             /\ McpPostExchanging(r, sid, init, a)
             /\ Len(transports') <= MaxSingleTransports
    \/ \E r \in Reqs, m \in {"GET", "DELETE"}, sid \in Ids \cup {NoId} :
          SessionRequestPlain(r, m, sid)
    \/ \E r \in Reqs, ok \in BOOLEAN : DiscoverySettles(r, ok)
    \/ \E r \in Reqs : \E g \in GrantOutcomes(req[r].exchArg) :
          GrantSettles(r, g)
    \/ \E r \in Reqs, ok \in BOOLEAN : LoadToolsSettles(r, ok)
    \/ \E r \in Reqs : ConnectResolves(r)
    \/ \E r \in Reqs, confirm \in BOOLEAN : TransportHandles(r, confirm)
    \/ \E t \in 1 .. MaxSingleTransports : TransportCloses(t)
    \/ \E v \in StaticTokens \cup {Undefined} : ConfigFileChanges(v)

\* main() hands performTokenExchange to the dispatcher only with
\* authentication and token exchange enabled
ExchangeInit == Init /\ enableAuth /\ enableTokenExchange

ExchangeSpec == ExchangeInit /\ [][ExchangeNext]_vars

\* ------------------------------------ tool loading at initialization
\* registerTools calls config.loadTools, which runs to its first await
LoadToolsCalled(exists, readable, dir) ==
    /\ loader.pc = "idle"
    /\ ~(exists /\ readable) => dir = <<>>
    /\ ~exists => ~readable
    /\ loader' = LoadToolsEntry(exists, readable, dir)
    /\ UNCHANGED <<handlers, http, oauth, config, proc>>

\* await import(toolPath) settles
ImportSettles ==
    /\ loader.pc = "import"
    /\ loader' = AfterImport(loader)
    /\ UNCHANGED <<handlers, http, oauth, config, proc>>

\* await toolModule.default(serverConfig) settles
FactorySettles ==
    /\ loader.pc = "factory"
    /\ loader' = AfterFactory(loader)
    /\ UNCHANGED <<handlers, http, oauth, config, proc>>

\* await config.loadTools(...) settles in registerTools
RegisterToolsResumes ==
    /\ loader.pc \in {"returned", "rejected"}
    /\ loader' = AfterLoadTools(loader)
    /\ UNCHANGED <<handlers, http, oauth, config, proc>>

LoaderNext ==
    \/ \E exists \in BOOLEAN, readable \in BOOLEAN, dir \in Directories :
          LoadToolsCalled(exists, readable, dir)
    \/ ImportSettles
    \/ FactorySettles
    \/ RegisterToolsResumes

\* the loader reads neither the feature switches nor the backend token
LoaderInit ==
    Init /\ ~enableAuth /\ ~enableTokenExchange /\ backendToken = Undefined

LoaderSpec == LoaderInit /\ [][LoaderNext]_vars

\* ---------------------------- the dispatcher as main() configures it
\* configurations that pass validateConfig, with the authentication pair
\* and the client credentials varied
StartedConfigs ==
    {c \in ServerConfigs :
        /\ ValidateConfig(c) = "ok"
        /\ c.SERVER_PORT = Port(3000)
        /\ c.TLS_KEY_PATH = Undefined /\ c.TLS_CERT_PATH = Undefined
        /\ c.MCP_SERVER_BASE_URL \in {Undefined, "set"}
        /\ c.AUTHZ_SERVER_BASE_URL \in {Undefined, "set"}
        /\ c.MCP_SERVER_CLIENT_SECRET \in {Undefined, "set"}}

\* main() lines 716-717 and 757-780: the switches handed to the dispatcher
\* are the ones deriveConfig computed from the configuration
StartedInit ==
    /\ QuietInit
    /\ backendToken \in StaticTokens \cup {Undefined}
    /\ config \in StartedConfigs
    /\ enableAuth = DeriveConfig(config).enableAuth
    /\ enableTokenExchange = DeriveConfig(config).enableTokenExchange
    /\ proc = ListeningProc(DeriveConfig(config).enableHttps)
    /\ loader = IdleLoader

StartedSpec == StartedInit /\ [][SingleNext]_vars

\* ------------------------------------------------------ startup: main()
\* main() lines 713-808, which run without an await: the configuration is
\* loaded, validated and derived, the handlers and the app are created and
\* the server listens; any error on the way is logged and the process
\* exits with code 1 (lines 834-837)
Main(readable) ==
    /\ proc.stage = "start"
    /\ LET error == IF readable THEN ValidateConfig(config)
                    ELSE "config.json cannot be read"
           derived == DeriveConfig(config)
       IN IF error # "ok"
          THEN /\ proc' = [proc EXCEPT !.stage = "exited", !.exitCode = 1,
                                       !.error = error]
               /\ UNCHANGED <<enableAuth, enableTokenExchange>>
          ELSE /\ proc' = ListeningProc(derived.enableHttps)
               /\ enableAuth' = derived.enableAuth
               /\ enableTokenExchange' = derived.enableTokenExchange
    /\ UNCHANGED <<sessions, transports, req, backendToken, loadToolsCalls,
                   http, oauth, config, loader>>

ConfigNext == \E readable \in BOOLEAN : Main(readable)

\* the process is started with any config.json; nothing is derived yet
ConfigInit ==
    /\ QuietInit
    /\ backendToken = Undefined
    /\ config \in ServerConfigs
    /\ enableAuth = FALSE
    /\ enableTokenExchange = FALSE
    /\ proc = StartingProc
    /\ loader = IdleLoader

ConfigSpec == ConfigInit /\ [][ConfigNext]_vars

\* ---------------------------------------------- the listening process
served == <<sessions, transports, req, backendToken, enableAuth,
            enableTokenExchange, loadToolsCalls, http, oauth, config, loader>>

\* a client connects; a closing server accepts no connection
ConnectionOpens ==
    /\ proc.stage = "listening"
    /\ ~proc.closing
    /\ proc.conns < MaxConns
    /\ proc' = [proc EXCEPT !.conns = @ + 1]
    /\ UNCHANGED served

\* a connection ends: its response is complete, or the client leaves
ConnectionEnds ==
    /\ proc.stage = "listening"
    /\ proc.conns > 0
    /\ proc' = [proc EXCEPT !.conns = @ - 1]
    /\ UNCHANGED served

\* SIGINT or SIGTERM is delivered
Signal(sig) ==
    /\ proc.stage = "listening"
    /\ proc.signals < MaxSignals
    /\ proc' = HandleShutdown(proc)
    /\ UNCHANGED served

\* the closing server has no connection left: 'close' is emitted
ServerCloses ==
    /\ proc.stage = "listening"
    /\ proc.closing
    /\ proc.conns = 0
    /\ proc' = CloseCallback(proc)
    /\ UNCHANGED served

\* a second passes; time does not pass a timer that is due
Tick ==
    /\ proc.stage = "listening"
    /\ Pending(proc.timers) # {}
    /\ \A k \in Pending(proc.timers) : proc.timers[k].left > 0
    /\ proc' = [proc EXCEPT !.timers =
                  [k \in 1 .. Len(@) |->
                     IF @[k].set THEN [@[k] EXCEPT !.left = @ - 1000]
                     ELSE @[k]]]
    /\ UNCHANGED served

\* a force timer is due
TimerFires(k) ==
    /\ proc.stage = "listening"
    /\ k \in Pending(proc.timers)
    /\ proc.timers[k].left = 0
    /\ proc' = ForceShutdown(proc)
    /\ UNCHANGED served

ShutdownNext ==
    \/ ConnectionOpens
    \/ ConnectionEnds
    \/ \E sig \in {"SIGINT", "SIGTERM"} : Signal(sig)
    \/ ServerCloses
    \/ Tick
    \/ \E k \in 1 .. MaxSignals : TimerFires(k)

\* the server listens; closeAllConnections exists or not with the runtime
ShutdownInit ==
    /\ QuietInit
    /\ backendToken = Undefined
    /\ enableAuth = FALSE
    /\ enableTokenExchange = FALSE
    /\ config = ConfigWith(FALSE, FALSE)
    /\ \E b \in BOOLEAN : proc = [ListeningProc(FALSE) EXCEPT !.closeAll = b]
    /\ loader = IdleLoader

\* the event loop runs: time passes, due timers and the close event fire
ShutdownSpec ==
    /\ ShutdownInit
    /\ [][ShutdownNext]_vars
    /\ WF_vars(Tick)
    /\ WF_vars(\E k \in 1 .. MaxSignals : TimerFires(k))
    /\ WF_vars(ServerCloses)

\* ------------------------------- the dispatcher called as a component
\* createMcpRequestHandler's handler reads req.auth as optional: mounted by
\* createApp without a middleware (authMiddleware is optional in AppConfig)
\* or called directly, it meets requests with no context, with a context
\* that is not valid, and with a validated one
InvalidAuth ==
    [present |-> TRUE, valid |-> FALSE, subjectToken |-> Undefined,
     downstreamToken |-> Undefined]

DirectAuths == {NoAuth, InvalidAuth, ValidatedAuth("subA")}

DispatcherNext ==
    \/ \E r \in Reqs, sid \in Ids \cup {NoId}, init \in BOOLEAN,
          a \in DirectAuths :
             McpPost(r, sid, init, a) /\ UNCHANGED pipeline
    \/ \E r \in Reqs, ok \in BOOLEAN : LoadToolsSettles(r, ok)
    \/ \E r \in Reqs : ConnectResolves(r)
    \/ \E r \in Reqs, ok \in BOOLEAN :
          ExchangeResolves(r, ok) /\ UNCHANGED pipeline
    \/ \E r \in Reqs, confirm \in BOOLEAN : TransportHandles(r, confirm)
    \/ \E t \in 1 .. MaxTransports : TransportCloses(t)
    \/ \E v \in StaticTokens \cup {Undefined} : ConfigFileChanges(v)

\* the handler configured with enableAuth
DispatcherInit == Init /\ enableAuth

DispatcherSpec == DispatcherInit /\ [][DispatcherNext]_vars

\* =================================================================
\* Properties
\* =================================================================
\* A claim about steps is stated as a state predicate: in no reachable state
\* is a step enabled that violates what the claim requires of every step,
\* ~ENABLED (Next /\ ~Step), with the next-state relation of the run the
\* claim is checked in.
Free == {"idle", "rejected", "failed"}

\* a step in which a request arrives at slot r
Arrives(r) == req[r].pc \in Free /\ req'[r] # req[r]
PostArrives(r) == Arrives(r) /\ req'[r].method = "POST"

\* a step in which the dispatcher hands request r to a transport
HandsOver(r) ==
    req[r].pc # "handle" /\ req'[r].pc = "handle" /\ req'[r].method = "POST"

\* a step in which the exchange awaited by request r resolves
ExchangeReturns(r) == req[r].pc = "exchange" /\ req'[r] # req[r]

Attached(rq) == rq.auth.downstreamToken

ClosedIds == {transports[t].sessionId :
                 t \in {u \in DOMAIN transports : transports[u].closed}}

\* C1: a POST that is neither (session id with a registered transport) nor
\* (no session id and an initialization body) is answered 400 / -32000 and
\* has no side effect: registry, transports and the loadTools count are
\* unchanged, no transport is assigned, no exchange, static-token read or
\* cache write happens.
C1_RejectStep(r) ==
    ( /\ PostArrives(r)
      /\ ~( /\ req'[r].sessionId # NoId
            /\ req'[r].sessionId \in DOMAIN sessions )
      /\ ~( req'[r].sessionId = NoId /\ req'[r].isInit ) )
    => /\ req'[r].pc = "rejected"
       /\ req'[r].status = 400
       /\ req'[r].code = -32000
       /\ req'[r].transport = NoTransport
       /\ req'[r].exchCalls = 0
       /\ req'[r].staticReads = 0
       /\ req'[r].cacheWrites = 0
       /\ UNCHANGED <<sessions, transports, loadToolsCalls>>

\* what C1 requires of every step
C1_EveryStep ==
    \A r \in Reqs : C1_RejectStep(r)

\* C1: from no reachable state can the dispatcher take a step in which a
\* POST that is neither a reuse nor an initialization is not answered
\* 400 / -32000, or has a side effect.
C1_InvalidRequestRejected == ~ENABLED (SingleNext /\ ~C1_EveryStep)

\* an unknown session id is rejected while another session is live
C1_Witness ==
    \E r \in Reqs :
        /\ req[r].pc = "rejected"
        /\ req[r].method = "POST"
        /\ req[r].code = -32000
        /\ req[r].sessionId # NoId
        /\ DOMAIN sessions # {}

\* a step in which the transport finishes the initialization request r
InitFinishes(r) ==
    /\ req[r].pc = "handle"
    /\ req[r].method = "POST"
    /\ req[r].sessionId = NoId
    /\ req'[r].pc = "idle"

\* a step in which an initialization request ends, one way or the other
InitEnds(r) ==
    \/ InitFinishes(r)
    \/ req[r].pc = "loadTools" /\ req'[r].pc = "failed"

\* C2 as stated: every request with no session id and an initialization
\* body ends with exactly one new session in the registry.
C2_Original ==
    [][\A r \in Reqs :
         InitEnds(r) =>
            Cardinality(DOMAIN sessions') = Cardinality(DOMAIN sessions) + 1]_vars

\* C2 (amended): an initialization request whose tool loading succeeds and
\* whose transport confirms session start adds exactly one session, under an
\* identifier never issued before, bound to the request's own transport; if
\* loadTools rejects or the transport does not confirm, none is added; and
\* sessions are added in no other step.
C2_InitStep(r) ==
    /\ InitFinishes(r) =>
         LET t == req[r].transport
             id == transports'[t].sessionId
         IN IF id # NoId
            THEN /\ transports[t].sessionId = NoId
                 /\ id \notin IssuedIds
                 /\ id \notin DOMAIN sessions
                 /\ DOMAIN sessions' = DOMAIN sessions \cup {id}
                 /\ sessions'[id] = [transport |-> t, downstreamToken |-> Null]
                 /\ \A i \in DOMAIN sessions : sessions'[i] = sessions[i]
            ELSE sessions' = sessions
    /\ (req[r].pc = "loadTools" /\ req'[r].pc = "failed") => sessions' = sessions

\* what C2 requires of every step
C2_EveryStep ==
    /\ \A r \in Reqs : C2_InitStep(r)
    /\ (DOMAIN sessions' \ DOMAIN sessions # {}) =>
          \E r \in Reqs : InitFinishes(r)

\* C2 (amended): from no reachable state is there a step in which an
\* initialization request ends otherwise than stated above, or in which a
\* session is added by anything but a finishing initialization.
C2_Amended ==
    ~ENABLED (SerialNext /\ ~C2_EveryStep)

\* a second initialization got its own identifier after the first session
\* was torn down
C2_Witness ==
    \E i \in DOMAIN sessions :
        /\ i \notin ClosedIds
        /\ ClosedIds # {}
        /\ sessions[i].downstreamToken = Null

\* C3: every POST carrying a registered session id S is handed to the
\* transport that was created for S (the one that confirmed S); on that path
\* the dispatcher creates no transport, loads no tools and writes no error.
C3_ReuseStep(r) ==
    ( PostArrives(r) /\ req'[r].sessionId \in DOMAIN sessions )
    => /\ req'[r].pc \in {"exchange", "handle"}
       /\ req'[r].transport = sessions[req'[r].sessionId].transport
       /\ transports[req'[r].transport].sessionId = req'[r].sessionId
       /\ req'[r].status = 0
       /\ UNCHANGED <<transports, loadToolsCalls>>

C3_InFlight(r) ==
    ( /\ req[r].method = "POST"
      /\ req[r].sessionId # NoId
      /\ req[r].pc \in {"exchange", "handle"} )
    => /\ req[r].transport # NoTransport
       /\ transports[req[r].transport].sessionId = req[r].sessionId
       /\ req[r].status = 0

\* what C3 requires of every step
C3_EveryStep ==
    \A r \in Reqs :
      /\ C3_ReuseStep(r)
      /\ (req[r].pc = "exchange" /\ req'[r].pc = "handle")
            => req'[r].transport = req[r].transport

\* C3: every request in flight on a session is with the transport that
\* confirmed that session, and from no reachable state is there a step in
\* which a POST with a registered id is handed anywhere else, or changes
\* transport across its exchange.
C3_ReuseSameTransport ==
    /\ (\A r \in Reqs : C3_InFlight(r))
    /\ ~ENABLED (Next /\ ~C3_EveryStep)

\* a follow-up POST on the second session is in the hands of its transport
C3_Witness ==
    \E r \in Reqs :
        /\ req[r].pc = "handle"
        /\ req[r].method = "POST"
        /\ req[r].sessionId \in DOMAIN sessions
        /\ req[r].transport = 2
        /\ sessions[req[r].sessionId].transport = 2

\* a request on a live session fell back to the static token after the
\* exchange returned null
FellBackAfterExchange(r) ==
    /\ ExchangeReturns(r)
    /\ req'[r].staticReads = 1
    /\ Truthy(backendToken)
    /\ req[r].sessionId \in DOMAIN sessions

C4_EveryStep ==
    \A r \in Reqs :
      FellBackAfterExchange(r) =>
         /\ req'[r].pc = "handle"
         /\ Attached(req'[r]) = backendToken
         /\ req'[r].cacheWrites = 0
         /\ sessions' = sessions

C5_CallStep(r) ==
    ( /\ PostArrives(r)
      /\ req'[r].sessionId \in DOMAIN sessions
      /\ ~Truthy(sessions[req'[r].sessionId].downstreamToken)
      /\ enableAuth /\ enableTokenExchange
      /\ req'[r].auth.valid
      /\ Truthy(req'[r].auth.subjectToken) )
    => /\ req'[r].pc = "exchange"
       /\ req'[r].exchCalls = 1
       /\ req'[r].exchArg = req'[r].auth.subjectToken
       /\ sessions' = sessions

C5_ReturnStep(r) ==
    ExchangeReturns(r)
    => /\ req'[r].pc = "handle"
       /\ req'[r].exchCalls = 1
       /\ \/ /\ Attached(req'[r]) = AccessTokenFor(req[r].auth.subjectToken)
             /\ req'[r].staticReads = 0
             /\ req[r].sessionId \in DOMAIN sessions =>
                   /\ sessions'[req[r].sessionId].downstreamToken = Attached(req'[r])
                   /\ sessions'[req[r].sessionId].transport =
                          sessions[req[r].sessionId].transport
          \/ /\ req'[r].staticReads = 1
             /\ Attached(req'[r]) =
                   IF Truthy(backendToken) THEN backendToken
                   ELSE Attached(req[r])
             /\ sessions' = sessions

\* what C5 requires of every step
C5_EveryStep ==
    \A r \in Reqs : C5_CallStep(r) /\ C5_ReturnStep(r)

\* C5: no request ever counts more than one exchanger call, an exchange in
\* flight was called with the request's own subject token, and from no
\* reachable state is there a step that calls or returns otherwise than
\* stated above.
C5_ExchangeOnceNoRetry ==
    /\ (\A r \in Reqs :
            /\ req[r].exchCalls <= 1
            /\ req[r].pc = "exchange" =>
                  /\ req[r].exchCalls = 1
                  /\ req[r].exchArg = req[r].auth.subjectToken)
    /\ ~ENABLED (SingleNext /\ ~C5_EveryStep)

\* the exchanged token is cached for the session and attached to the request
C5_Witness ==
    \E r \in Reqs :
        /\ req[r].pc = "handle"
        /\ req[r].exchCalls = 1
        /\ req[r].cacheWrites = 1
        /\ req[r].sessionId \in DOMAIN sessions
        /\ Attached(req[r]) = AccessTokenFor(req[r].auth.subjectToken)
        /\ sessions[req[r].sessionId].downstreamToken = Attached(req[r])

\* what C6 requires of every step
C6_EveryStep ==
    \A r \in Reqs :
      ( /\ PostArrives(r)
        /\ req'[r].sessionId \in DOMAIN sessions
        /\ Truthy(sessions[req'[r].sessionId].downstreamToken) )
      => /\ req'[r].pc = "handle"
         /\ req'[r].auth.valid
         /\ Attached(req'[r]) = sessions[req'[r].sessionId].downstreamToken
         /\ req'[r].exchCalls = 0
         /\ req'[r].staticReads = 0
         /\ req'[r].cacheWrites = 0
         /\ sessions' = sessions

\* C6: when the registry holds a credential for the request's session, the
\* dispatcher attaches exactly that value and hands the request over at
\* once: no exchange, no static-token read, no cache write.
C6_CacheHit ==
    ~ENABLED (SingleNext /\ ~C6_EveryStep)

\* a request was served from the cache
C6_Witness ==
    \E r \in Reqs :
        /\ req[r].pc = "handle"
        /\ req[r].exchCalls = 0
        /\ req[r].sessionId \in DOMAIN sessions
        /\ Truthy(sessions[req[r].sessionId].downstreamToken)
        /\ Attached(req[r]) = sessions[req[r].sessionId].downstreamToken

C7_EveryStep ==
    \A r \in Reqs :
      (~enableAuth /\ HandsOver(r))
      => /\ req'[r].auth.valid
         /\ Attached(req'[r]) =
               IF req'[r].sessionId # NoId /\ Truthy(backendToken)
               THEN backendToken ELSE Null
         /\ req'[r].cacheWrites = 0
         /\ sessions' = sessions

C8_EveryStep ==
    /\ \A t \in DOMAIN transports :
         (~transports[t].closed /\ transports'[t].closed)
         => /\ transports[t].sessionId # NoId
            /\ transports[t].sessionId \notin DOMAIN sessions'
            /\ \A i \in DOMAIN sessions \ {transports[t].sessionId} :
                  i \in DOMAIN sessions' /\ sessions'[i] = sessions[i]
    /\ \A r \in Reqs :
         (Arrives(r) /\ req'[r].sessionId \in ClosedIds)
         => /\ req'[r].pc = "rejected"
            /\ req'[r].status = 400
            /\ req'[r].method = "POST" => req'[r].code = -32000
            /\ req'[r].transport = NoTransport

\* C8: when a transport reports closure its session leaves the registry and
\* stays out; every request arriving afterwards with that identifier is
\* rejected (POST: 400 / -32000, GET and DELETE: 400) and gets no transport.
C8_Teardown ==
    /\ (ClosedIds \cap DOMAIN sessions = {})
    /\ ~ENABLED (SerialNext /\ ~C8_EveryStep)

\* a GET or DELETE with the identifier of a closed session was refused
C8_Witness ==
    \E r \in Reqs :
        /\ req[r].pc = "rejected"
        /\ req[r].method \in {"GET", "DELETE"}
        /\ req[r].status = 400
        /\ req[r].sessionId \in ClosedIds

\* what C9 requires of every step
C9_EveryStep ==
    /\ \A i \in DOMAIN sessions \cap DOMAIN sessions' :
         sessions'[i].transport = sessions[i].transport
    /\ \A i \in DOMAIN sessions' \ DOMAIN sessions : i \notin IssuedIds
    /\ \A t \in DOMAIN transports :
         transports[t].sessionId # NoId
            => transports'[t].sessionId = transports[t].sessionId

\* C9: a registered identifier belongs to exactly one transport, the one
\* that was given it; while it is registered its transport never changes; a
\* transport keeps its identifier; and an identifier that was ever issued is
\* never registered again.
C9_OneTransportPerSession ==
    /\   (/\ \A i \in DOMAIN sessions :
               /\ sessions[i].transport \in DOMAIN transports
               /\ transports[sessions[i].transport].sessionId = i
          /\ \A t, u \in DOMAIN transports :
               (t # u /\ transports[t].sessionId # NoId)
                  => transports[t].sessionId # transports[u].sessionId)
    /\ ~ENABLED (Next /\ ~C9_EveryStep)

\* two sessions are live, each on its own transport
C9_Witness ==
    /\ Cardinality(DOMAIN sessions) = 2
    /\ \A i, j \in DOMAIN sessions :
          i # j => sessions[i].transport # sessions[j].transport

\* what C10 requires of every step
C10_EveryStep ==
    \A r \in Reqs :
      (ExchangeReturns(r) /\ req[r].sessionId \notin DOMAIN sessions)
      => sessions' = sessions

\* C10: for an identifier that is not registered, getTransport finds
\* nothing, getDownstreamToken returns null, deleteSession and
\* setDownstreamToken leave the registry as it is (also when the session was
\* deleted while an exchange for it was in flight), and deleteSession with
\* an undefined identifier changes nothing.
C10_UnregisteredIds ==
    /\   (/\ \A i \in Ids \ DOMAIN sessions :
               /\ GetTransport(sessions, i) = NoTransport
               /\ GetDownstreamToken(sessions, i) = Null
               /\ ~HasSession(sessions, i)
               /\ DeleteSession(sessions, i) = sessions
               /\ \A tok \in {"dsA", "dsB"} \cup StaticTokens :
                     SetDownstreamToken(sessions, i, tok) = sessions
          /\ DeleteSession(sessions, NoId) = sessions)
    /\ ~ENABLED (SingleNext /\ ~C10_EveryStep)

\* an exchange completed with a token for a session that is gone
C10_Witness ==
    \E r \in Reqs :
        /\ req[r].pc = "handle"
        /\ req[r].cacheWrites = 1
        /\ req[r].sessionId \in ClosedIds
        /\ req[r].sessionId \notin DOMAIN sessions

\* the tokens the exchanger can return
DownstreamTokens == {AccessTokenFor(sub) : sub \in SubjectTokens}

\* C11: a session enters the registry with a null token; the token changes
\* only by a setDownstreamToken for that very identifier, which stores the
\* new value over the old one, so that getDownstreamToken returns the value
\* set last; the step leaves every other session's entry, the session's own
\* transport and all transports as they were.
C11_SetStep(i) ==
    /\ i \notin DOMAIN sessions => GetDownstreamToken(sessions', i) = Null
    /\ (i \in DOMAIN sessions /\ sessions'[i] # sessions[i]) =>
          /\ \E r \in Reqs :
                /\ ExchangeReturns(r)
                /\ req[r].sessionId = i
                /\ GetDownstreamToken(sessions', i) =
                      AccessTokenFor(req[r].exchArg)
          /\ sessions'[i].transport = sessions[i].transport
          /\ \A j \in DOMAIN sessions \ {i} :
                j \in DOMAIN sessions' /\ sessions'[j] = sessions[j]
          /\ transports' = transports

\* what C11 requires of every step
C11_EveryStep ==
    /\ \A i \in DOMAIN sessions' : C11_SetStep(i)
    /\ \A r \in Reqs :
         ( /\ ExchangeReturns(r)
           /\ req'[r].cacheWrites = 1
           /\ req[r].sessionId \in DOMAIN sessions )
         => GetDownstreamToken(sessions', req[r].sessionId) =
               AccessTokenFor(req[r].exchArg)

C12_SessionStep(r) ==
    ( Arrives(r) /\ req'[r].method \in {"GET", "DELETE"} )
    => /\ UNCHANGED <<sessions, transports, loadToolsCalls>>
       /\ IF req'[r].sessionId \notin DOMAIN sessions
          THEN /\ req'[r].pc = "rejected"
               /\ req'[r].status = 400
               /\ req'[r].body = "Invalid or missing session ID"
               /\ req'[r].transport = NoTransport
          ELSE /\ req'[r].pc = "handle"
               /\ req'[r].transport = sessions[req'[r].sessionId].transport
               /\ req'[r].status = 0
               /\ req'[r].body = ""

\* what C12 requires of every step
C12_EveryStep ==
    \A r \in Reqs : C12_SessionStep(r)

\* C12: a GET or DELETE in flight is with the transport of its session,
\* and from no reachable state is there a step in which a GET or DELETE
\* arrives and is treated otherwise than stated above.
C12_SessionHandler ==
    /\ (\A r \in Reqs :
            (req[r].method \in {"GET", "DELETE"} /\ req[r].pc = "handle")
            => /\ req[r].transport # NoTransport
               /\ transports[req[r].transport].sessionId = req[r].sessionId)
    /\ ~ENABLED (SingleNext /\ ~C12_EveryStep)

\* a GET with an identifier that was never issued was refused while a
\* session was live
C12_Witness ==
    \E r \in Reqs :
        /\ req[r].pc = "rejected"
        /\ req[r].method = "GET"
        /\ req[r].body = "Invalid or missing session ID"
        /\ req[r].sessionId \in Ids \ IssuedIds
        /\ DOMAIN sessions # {}

\* C13: when loadTools rejects, the handler's promise rejects with that
\* error: no response is written, no tool is registered, the server is not
\* connected, no session is added, and loadTools is not called again (one
\* call per transport created).
C13_FailStep(r) ==
    ( req[r].pc = "loadTools" /\ req'[r] # req[r] )
    => /\ loadToolsCalls' = loadToolsCalls
       /\ UNCHANGED <<sessions, transports>>
       /\ \/ req'[r].pc = "connect" /\ req'[r].toolsRegistered
          \/ /\ req'[r].pc = "failed"
             /\ req'[r].thrown = "loadToolsError"
             /\ req'[r].status = 0
             /\ req'[r].body = ""
             /\ ~req'[r].toolsRegistered
             /\ ~transports[req[r].transport].connected

\* what C13 requires of every step
C13_EveryStep ==
    \A r \in Reqs : C13_FailStep(r)

\* C13: loadTools was called once per transport created, a thrown error
\* leaves the request failed with no response written and its server not
\* connected, and from no reachable state is there a step out of tool
\* loading that does otherwise than stated above.
C13_LoadToolsFailFast ==
    /\   (/\ loadToolsCalls = Len(transports)
          /\ \A r \in Reqs :
               /\ req[r].pc = "connect" => req[r].toolsRegistered
               /\ req[r].thrown # "none" =>
                     req[r].pc = "failed" /\ req[r].status = 0
          /\ \A t \in DOMAIN transports :
               transports[t].connected =>
                  \A r \in Reqs :
                     ~(req[r].pc = "failed" /\ req[r].transport = t))
    /\ ~ENABLED (SerialNext /\ ~C13_EveryStep)

\* an initialization request failed in tool loading after another session
\* had been set up
C13_Witness ==
    \E r \in Reqs :
        /\ req[r].pc = "failed"
        /\ req[r].thrown = "loadToolsError"
        /\ req[r].transport = 2
        /\ DOMAIN sessions # {}

\* the middleware answered request r without calling the validator
RefusedUnvalidated(r) ==
    http[r].pc = "responded" /\ http[r].validatorCalls = 0

\* C14: a request whose Authorization header is absent or does not start
\* with 'Bearer ' is answered 401 with the challenge
\* Bearer realm="mcp", as_uri="<resourceMetadataUrl>" and the body
\* { jsonrpc: '2.0', error: { code: -32001, message: 'Authorization
\* required' }, id: null }; the validator and next are not called and no
\* auth context is attached.
C14_MissingCredential ==
    \A r \in Reqs :
        (http[r].pc # "idle" /\ ~StartsWithBearer(http[r].header))
        => /\ RefusedUnvalidated(r)
           /\ http[r].status = 401
           /\ http[r].wwwAuth = [realm |-> "mcp", error |-> "",
                                 as_uri |-> ResourceMetadataUrl]
           /\ http[r].body = JsonRpcError(-32001, "Authorization required")
           /\ http[r].nextCalls = 0
           /\ http[r].auth = NoAuth

\* the validator call of request r resolved with a result
Resolved(r) == http[r].validation.kind = "resolved"

\* C15: next is called, once, exactly when the validator resolves with a
\* valid result; then that result is the request's auth context and the
\* middleware has written no status, header or body.  When the validator
\* resolves with an invalid result the answer is 401 with the
\* error="invalid_token" challenge and code -32001, no auth context is
\* attached and next is not called.
C15_ExclusiveOutcome ==
    \A r \in Reqs :
        /\ http[r].nextCalls <= 1
        /\ http[r].nextCalls = 1 <=> (Resolved(r) /\ http[r].validation.result.valid)
        /\ http[r].nextCalls = 1 =>
              /\ http[r].pc = "next"
              /\ http[r].auth = AttachedContext(http[r].validation.result)
              /\ http[r].auth.valid
              /\ http[r].status = 0
              /\ http[r].wwwAuth = NoChallenge
              /\ http[r].body = NoBody
        /\ (Resolved(r) /\ ~http[r].validation.result.valid) =>
              /\ http[r].pc = "responded"
              /\ http[r].status = 401
              /\ http[r].wwwAuth = [realm |-> "mcp", error |-> "invalid_token",
                                    as_uri |-> ResourceMetadataUrl]
              /\ http[r].body.code = -32001
              /\ http[r].auth = NoAuth

\* one request was let through with its context, another was refused as
\* invalid
C15_Witness ==
    \E r, q \in Reqs :
        /\ http[r].nextCalls = 1
        /\ http[r].auth = ValidatedAuth("subB")
        /\ Resolved(q)
        /\ ~http[q].validation.result.valid
        /\ http[q].status = 401

\* C16: when the validator call rejects, with an Error or anything else,
\* the middleware answers 500 with code -32603 and the fixed message, does
\* not call next, attaches no auth context, and its own promise does not
\* reject.
C16_ValidatorFailure ==
    \A r \in Reqs :
        /\ http[r].thrown = "none"
        /\ http[r].validation.kind = "rejected" =>
              /\ http[r].pc = "responded"
              /\ http[r].status = 500
              /\ http[r].body =
                    JsonRpcError(-32603,
                                 "Internal server error during authentication")
              /\ http[r].nextCalls = 0
              /\ http[r].auth = NoAuth

\* the validator rejected with an Error for one request and with a string
\* for another
C16_Witness ==
    \E r, q \in Reqs :
        /\ http[r].validation = [kind |-> "rejected",
                                 error |-> "Error: JWKS fetch failed"]
        /\ http[q].validation = [kind |-> "rejected", error |-> "String error"]
        /\ http[r].status = 500
        /\ http[q].status = 500

\* the validator call of request r was served by validateAccessToken
ByJwtValidator(r) == "verifyCalls" \in DOMAIN http[r].validation

\* C18: validateAccessToken always resolves, and for every token that
\* fails a check (undecodable, no algorithm, no key identifier, key lookup
\* failure, signature, expiry, issuer, audience) with exactly
\* { valid: false }; it resolves with valid = true only for a token that
\* passes verification, and then subjectToken is the input token.
C18_UniformInvalid ==
    \A r \in Reqs :
        ByJwtValidator(r) =>
           LET out == http[r].validation
               tok == http[r].validatorArg
           IN /\ out.kind = "resolved"
              /\ http[r].status # 500
              /\ \/ out.result = [valid |-> FALSE]
                 \/ /\ out.result.valid
                    /\ out.result.subjectToken = tok
                    /\ tok \in SubjectTokens
                    /\ out.verifyCalls = 1
                    /\ out.keyQueries = 1
              /\ tok \in BadTokens => out.result = [valid |-> FALSE]

\* an expired token and a good token whose key could not be fetched both
\* got the bare invalid result
C18_Witness ==
    \E r, q \in Reqs :
        /\ ByJwtValidator(r) /\ ByJwtValidator(q)
        /\ http[r].validatorArg = "expired"
        /\ http[q].validatorArg = "subA"
        /\ http[r].validation.result = [valid |-> FALSE]
        /\ http[q].validation.result = [valid |-> FALSE]

\* C19: for a token whose header names no algorithm, jwt.verify is not
\* called and the result is invalid; whenever jwt.verify is called, its
\* algorithms option is the one algorithm of the token's header; for a
\* token whose header has no key identifier the key set is not queried and
\* the result is invalid.
C19_FailsClosed ==
    \A r \in Reqs :
        ByJwtValidator(r) =>
           LET out == http[r].validation
               tok == http[r].validatorArg
           IN /\ tok \in {"", "garbage", "noAlg"} =>
                    /\ out.verifyCalls = 0
                    /\ out.algorithms = {}
                    /\ out.keyQueries = 0
                    /\ ~out.result.valid
              /\ out.verifyCalls = 1 =>
                    /\ Truthy(Decode(tok).alg)
                    /\ out.algorithms = {Decode(tok).alg}
              /\ tok = "subB" /\ out.result.valid => out.algorithms = {"ES256"}
              /\ tok = "subA" /\ out.result.valid => out.algorithms = {"RS256"}
              /\ tok = "noKid" =>
                    /\ out.keyQueries = 0
                    /\ ~out.result.valid

\* a token without algorithm and a token without key identifier were both
\* refused
C19_Witness ==
    \E r, q \in Reqs :
        /\ ByJwtValidator(r) /\ ByJwtValidator(q)
        /\ http[r].validatorArg = "noAlg"
        /\ http[q].validatorArg = "noKid"
        /\ http[r].status = 401
        /\ http[q].status = 401
        /\ http[q].validation.verifyCalls = 1

\* a step in which the dispatcher or the session handler starts running for
\* the request in slot r
HandlerRuns(r) ==
    req[r].pc \in Free /\ req'[r] # req[r] /\ req'[r] # IdleReq

\* the request in slot r carried a bearer token that validateAccessToken
\* found valid, and the middleware passed it on with that result attached
PassedWithValidBearer(h) ==
    /\ h.pc = "next"
    /\ h.nextCalls = 1
    /\ StartsWithBearer(h.header)
    /\ h.validatorArg = h.header.rest
    /\ h.validation.kind = "resolved"
    /\ h.validation.result.valid
    /\ h.validation.result.subjectToken = h.header.rest
    /\ h.auth = ValidatedAuth(h.header.rest)

\* what C17 requires of every step
C17_EveryStep ==
    \A r \in Reqs :
      (enableAuth /\ HandlerRuns(r))
      => /\ http[r].pc = "validate"
         /\ PassedWithValidBearer(http'[r])
         /\ http'[r].method = req'[r].method
         /\ req'[r].method = "POST" /\ req'[r].pc # "rejected"
               => req'[r].auth.subjectToken = http[r].validatorArg

\* C17: with authentication enabled, the dispatcher (POST) and the session
\* handler (GET, DELETE) start only in the turn in which the middleware,
\* having awaited the validator on the request's bearer token, got a valid
\* result and called next; a request that was answered by the middleware,
\* or is still being validated, has reached no handler.
C17_HandlersBehindMiddleware ==
    /\ (enableAuth =>
            \A r \in Reqs :
               /\ req[r] # IdleReq =>
                     /\ PassedWithValidBearer(http[r])
                     /\ http[r].method = req[r].method
               /\ http[r].pc \in {"validate", "responded"} => req[r] = IdleReq)
    /\ ~ENABLED (AuthNext /\ ~C17_EveryStep)

\* with authentication enabled, a DELETE reached the session handler on a
\* live session while a request without credentials was answered 401
C17_Witness ==
    \E r, q \in Reqs :
        /\ enableAuth
        /\ req[r].method = "DELETE"
        /\ req[r].pc = "handle"
        /\ PassedWithValidBearer(http[r])
        /\ http[q].status = 401
        /\ http[q].header = NoHeader
        /\ req[q] = IdleReq

\* ---------------------------------------------------------------- C20
\* the exchanger returns for request r in this step
ExchangerReturned(r) ==
    /\ oauth.stage[r] \in {"discovery", "grant"}
    /\ oauth'.stage[r] = "none"
    /\ req[r].pc = "exchange"

ExchangeFailureLogs ==
    {"Failed to initialize OpenID client",
     "Error during token exchange",
     "Token exchange succeeded but no access_token was returned"}

C20_ReturnStep(r) ==
    ExchangerReturned(r) =>
       \* never throws: the handler goes on to handle the request, no
       \* error is thrown and no error response is written
       /\ req'[r].pc = "handle"
       /\ req'[r].thrown = "none"
       /\ req'[r].status = 0
       /\ req'[r].body = ""
       /\ IF oauth'.log[r] \in ExchangeFailureLogs
          THEN \* null: nothing cached, the static token is consulted and
               \* attached when there is one
               /\ req'[r].staticReads = req[r].staticReads + 1
               /\ req'[r].cacheWrites = req[r].cacheWrites
               /\ sessions' = sessions
               /\ Attached(req'[r]) = IF Truthy(backendToken)
                                      THEN backendToken
                                      ELSE Attached(req[r])
          ELSE \* the access token of the grant response
               /\ oauth'.log[r] = "none"
               /\ oauth.stage[r] = "grant"
               /\ Attached(req'[r]) = AccessTokenFor(req[r].exchArg)
               /\ req'[r].staticReads = req[r].staticReads

\* what C20 requires of every step
C20_EveryStep ==
    \A r \in Reqs : C20_ReturnStep(r)

\* C20: the token exchanger never throws: it returns null when discovery
\* fails, when the grant request fails or is rejected and when the response
\* has no access token, and the access token otherwise; the failure is not
\* surfaced to the client and the request goes on with the fallback token.
C20_ExchangerNeverThrows ==
    /\ (\A r \in Reqs : req[r].thrown # "exchangeError")
    /\ ~ENABLED (ExchangeNext /\ ~C20_EveryStep)

\* all three failures and a success have been seen: one request fell back
\* to the static token after a failed discovery, the other was handed the
\* exchanged token
C20_Witness ==
    /\ oauth.log[1] = "Failed to initialize OpenID client"
    /\ req[1].pc = "handle" /\ req[1].exchCalls = 1
    /\ req[1].staticReads = 1
    /\ Attached(req[1]) = backendToken
    /\ oauth.cached # NoConfig
    /\ req[2].pc = "handle" /\ req[2].exchCalls = 1
    /\ oauth.log[2] = "none"
    /\ Attached(req[2]) = AccessTokenFor(req[2].exchArg)

\* a rejected grant request, and a response without access token, each
\* ended in the fallback
C20_WitnessGrant ==
    /\ oauth.log[1] = "Error during token exchange"
    /\ oauth.log[2] = "Token exchange succeeded but no access_token was returned"
    /\ \A r \in Reqs : req[r].pc = "handle" /\ req[r].staticReads = 1

\* ---------------------------------------------------------------- C21
\* what the well-behaved modules of a directory produce, in directory order
RECURSIVE ProducedBy(_)
ProducedBy(dir) ==
    IF dir = <<>> THEN <<>>
    ELSE (IF Head(dir).kind \in {"array", "single"} THEN Head(dir).value
          ELSE <<>>) \o ProducedBy(Tail(dir))

\* the .js entries of the directory that fail to import or whose factory
\* throws or rejects
FailingFiles(files) ==
    {k \in 1 .. Len(files) :
        files[k].kind \in {"importFails", "factoryThrows", "factoryRejects"}}

\* C21: loadTools returns the empty list, not an error, when the tools
\* directory does not exist; a module that fails to import or whose factory
\* throws is skipped without aborting, so every definition the other
\* modules produce is returned; a module without a function default export
\* contributes nothing.
C21_LoaderTolerance ==
    /\ loader.pc = "rejected" => loader.exists /\ ~loader.readable
    /\ loader.pc = "returned" =>
          /\ ~loader.exists => loader.tools = <<>>
          /\ loader.exists =>
                /\ loader.tools = ProducedBy(loader.dir)
                /\ loader.errors = FailingFiles(loader.files)

\* a module that fails to import stands before one that produces two
\* definitions, and both definitions were returned
C21_Witness ==
    /\ loader.pc = "returned"
    /\ Len(loader.files) = 2
    /\ loader.files[1].kind = "importFails"
    /\ loader.errors = {1}
    /\ Len(loader.tools) = 2

\* loadTools returned for a directory that does not exist
C21_WitnessNoDirectory ==
    /\ loader.pc = "returned" /\ ~loader.exists /\ loader.tools = <<>>

\* ---------------------------------------------------------------- C22
\* registerTools has finished, one way or the other, after loadTools
\* returned a list
RegistrationOver ==
    /\ loader.pc \in {"registered", "failed"}
    /\ loader.exists => loader.readable

\* the definitions among what loadTools returned
ReturnedDefinitions ==
    {loader.tools[k] : k \in 1 .. Len(loader.tools)} \ {NotADefinition}

RegisteredDefinitions ==
    {loader.registered[k] : k \in 1 .. Len(loader.registered)}

\* C22: at session initialization every tool definition that loadTools
\* returned is registered on the session's server under its own name with
\* its metadata block and its handler unchanged, and nothing that loadTools
\* did not return is registered.
C22_ToolRoundTrip ==
    RegistrationOver =>
       /\ \A t \in ReturnedDefinitions :
             \E k \in 1 .. Len(loader.registered) :
                /\ loader.registered[k].name = t.name
                /\ loader.registered[k].metadata = t.metadata
                /\ loader.registered[k].handler = t.handler
       /\ RegisteredDefinitions \subseteq ReturnedDefinitions

\* ---------------------------------------------------------------- C23
\* authentication is configured, and so are both client credentials
ExchangeConfigured ==
    /\ Truthy(config.MCP_SERVER_BASE_URL)
    /\ Truthy(config.AUTHZ_SERVER_BASE_URL)
    /\ Truthy(config.MCP_SERVER_CLIENT_ID)
    /\ Truthy(config.MCP_SERVER_CLIENT_SECRET)

\* C23: token exchange is attempted only when authentication is enabled and
\* both MCP_SERVER_CLIENT_ID and MCP_SERVER_CLIENT_SECRET are configured;
\* otherwise no request calls the exchanger, and the downstream credential
\* is the static backend token or absent.
C23_ExchangeOnlyWhenConfigured ==
    ~ExchangeConfigured =>
       /\ \A r \in Reqs :
             /\ req[r].pc # "exchange"
             /\ req[r].exchCalls = 0
             /\ Attached(req[r]) \in StaticTokens \cup {Null, Undefined}
       /\ \A i \in DOMAIN sessions :
             ~Truthy(sessions[i].downstreamToken)

\* authentication is on and only the client secret is missing: a request
\* on a live session went to the transport with the static token, and the
\* exchanger was not called
C23_Witness ==
    /\ Truthy(config.MCP_SERVER_BASE_URL)
    /\ Truthy(config.MCP_SERVER_CLIENT_ID)
    /\ ~Truthy(config.MCP_SERVER_CLIENT_SECRET)
    /\ \E r \in Reqs :
          /\ req[r].pc = "handle"
          /\ req[r].sessionId \in DOMAIN sessions
          /\ req[r].staticReads = 1
          /\ req[r].exchCalls = 0
          /\ Attached(req[r]) \in StaticTokens

\* ---------------------------------------------------------------- C24
\* exactly one field of a pair is set (set: a non-empty value)
ExactlyOne(a, b) == Truthy(a) # Truthy(b)

PartialPair ==
    \/ ExactlyOne(config.MCP_SERVER_BASE_URL, config.AUTHZ_SERVER_BASE_URL)
    \/ ExactlyOne(config.TLS_KEY_PATH, config.TLS_CERT_PATH)

\* C24: validateConfig rejects at startup every configuration in which
\* exactly one of MCP_SERVER_BASE_URL / AUTHZ_SERVER_BASE_URL, or exactly
\* one of TLS_KEY_PATH / TLS_CERT_PATH, is set; so for every configuration
\* that passes, enableAuth (resp. enableHttps) is true exactly when both
\* fields of the pair are set and false exactly when neither is.
C24_PairedFields ==
    /\ (proc.stage # "start" /\ PartialPair) =>
          /\ proc.stage = "exited"
          /\ proc.exitCode = 1
          /\ proc.error # "none"
    /\ proc.stage = "listening" =>
          /\ enableAuth <=> (Truthy(config.MCP_SERVER_BASE_URL)
                               /\ Truthy(config.AUTHZ_SERVER_BASE_URL))
          /\ ~enableAuth <=> (~Truthy(config.MCP_SERVER_BASE_URL)
                                /\ ~Truthy(config.AUTHZ_SERVER_BASE_URL))
          /\ proc.enableHttps <=> (Truthy(config.TLS_KEY_PATH)
                                     /\ Truthy(config.TLS_CERT_PATH))
          /\ ~proc.enableHttps <=> (~Truthy(config.TLS_KEY_PATH)
                                      /\ ~Truthy(config.TLS_CERT_PATH))

\* a configuration with only MCP_SERVER_BASE_URL of the first pair was
\* rejected with the error that names the missing field
C24_Witness ==
    /\ proc.stage = "exited"
    /\ Truthy(config.MCP_SERVER_BASE_URL)
    /\ ~Truthy(config.AUTHZ_SERVER_BASE_URL)
    /\ proc.error = "AUTHZ_SERVER_BASE_URL is required when authentication is enabled"

\* a configuration with both pairs complete passed: both features are on
C24_WitnessBoth ==
    /\ proc.stage = "listening" /\ enableAuth /\ proc.enableHttps

\* ---------------------------------------------------------------- C25
Signalled == proc.signals > 0

Exited == proc.stage = "exited"

\* the grace period of some signal has run out
GraceExpired == \E k \in Pending(proc.timers) : proc.timers[k].left = 0

\* C25: after SIGINT or SIGTERM the process always eventually exits: with
\* code 0 only after the server's close has completed, with a non-zero code
\* if close has not completed when the grace period of 5 s expires; it
\* never keeps running after the signal.
C25_GracefulShutdown ==
    /\ [](Signalled /\ Exited =>
            /\ proc.exitCode = 0 => proc.closed
            /\ proc.exitCode # 0 =>
                  /\ proc.exitCode = 1
                  /\ ~proc.closed
                  /\ GraceExpired)
    /\ (Signalled ~> Exited)

\* a connection stayed open through the whole grace period and the process
\* was forced to exit with code 1
C25_Witness ==
    /\ Signalled /\ Exited
    /\ proc.exitCode = 1
    /\ proc.conns > 0
    /\ ~proc.closed

\* the server closed in time and the process exited with code 0
C25_WitnessClean ==
    /\ Signalled /\ Exited /\ proc.exitCode = 0 /\ proc.closed
    /\ ~proc.timers[1].set

\* ---------------------------------------------------------------- C26
\* request r arrives for a live session whose cache is empty, with
\* everything the exchange needs in place
ArrivesUncached(r) ==
    /\ PostArrives(r)
    /\ enableAuth /\ enableTokenExchange
    /\ req'[r].sessionId \in DOMAIN sessions
    /\ ~Truthy(sessions[req'[r].sessionId].downstreamToken)

\* the exchange of request r returns a token in this step
ExchangeSucceeds(r) ==
    /\ ExchangeReturns(r)
    /\ req'[r].cacheWrites = req[r].cacheWrites + 1

\* what C26 requires of every step
C26_EveryStep ==
    \A r \in Reqs :
      /\ ArrivesUncached(r) =>
            /\ req'[r].pc = "exchange"
            /\ req'[r].exchCalls = 1
      /\ ExchangeSucceeds(r) =>
            /\ req'[r].pc = "handle"
            /\ Attached(req'[r]) = AccessTokenFor(req[r].exchArg)
            /\ req[r].sessionId \in DOMAIN sessions =>
                  sessions'[req[r].sessionId].downstreamToken
                     = AccessTokenFor(req[r].exchArg)
            /\ \A i \in DOMAIN sessions \ {req[r].sessionId} :
                  sessions'[i] = sessions[i]
            /\ \A o \in Reqs \ {r} : req'[o] = req[o]

\* C26: two requests with the same live session identifier in flight with
\* an empty cache are not serialised: each performs its own exchange
\* whatever the other is doing; the cache holds what the exchange that
\* completed last wrote; and each goes to the transport with the credential
\* it obtained itself, leaving the other request as it is.
C26_LastWriterWins ==
    ~ENABLED (SingleNext /\ ~C26_EveryStep)

\* both requests of one session exchanged, for different users; each holds
\* its own token and the cache holds the second one
C26_Witness ==
    /\ req[1].sessionId = req[2].sessionId
    /\ req[1].sessionId \in DOMAIN sessions
    /\ req[1].pc = "handle" /\ req[2].pc = "handle"
    /\ req[1].exchCalls = 1 /\ req[2].exchCalls = 1
    /\ Attached(req[1]) = "dsA"
    /\ Attached(req[2]) = "dsB"
    /\ sessions[req[1].sessionId].downstreamToken = "dsB"

\* both exchanges are in flight at once
C26_WitnessBothInFlight ==
    /\ req[1].pc = "exchange" /\ req[2].pc = "exchange"
    /\ req[1].sessionId = req[2].sessionId

\* ---------------------------------------------------------------- C27
\* the exchange of request r returns a token after the session of r was
\* torn down
ExchangeOutlivesSession(r) ==
    /\ ExchangeSucceeds(r)
    /\ req[r].sessionId \in ClosedIds
    /\ req[r].sessionId \notin DOMAIN sessions

\* C27 as stated: if a session is torn down while a credential exchange for
\* it is in flight, the exchange is not cancelled and, on completing,
\* populates a downstream-credential cache entry for the now-dead session
\* identifier, which then stays in the registry.
C27_Original ==
    [][\A r \in Reqs :
         ExchangeOutlivesSession(r) =>
            /\ req[r].sessionId \in DOMAIN sessions'
            /\ sessions'[req[r].sessionId].downstreamToken
                  = AccessTokenFor(req[r].exchArg)]_vars

\* what C27 requires of every step
C27_EveryStep ==
    \A r \in Reqs :
      ExchangeOutlivesSession(r) =>
         /\ req'[r].pc = "handle"
         /\ Attached(req'[r]) = AccessTokenFor(req[r].exchArg)
         /\ sessions' = sessions

\* C27 amended: the exchange is not cancelled and its request goes on to
\* the transport with the exchanged credential, but the completing exchange
\* writes nothing: the registry has no entry for the dead identifier, then
\* or at any later time.
C27_Amended ==
    /\ ~ENABLED (SingleNext /\ ~C27_EveryStep)
    /\ (DOMAIN sessions \cap ClosedIds = {})

\* an exchange completed for a session closed in the meantime: the request
\* holds the exchanged token and the registry holds nothing for the session
C27_Witness ==
    \E r \in Reqs :
        /\ req[r].pc = "handle"
        /\ req[r].exchCalls = 1
        /\ req[r].cacheWrites = 1
        /\ Attached(req[r]) = AccessTokenFor(req[r].exchArg)
        /\ req[r].sessionId \in ClosedIds
        /\ DOMAIN sessions = {}

\* ---------------------------------------------------------------- C28
\* the calls whose discovery request is out at the authorization server
Discovering == {r \in Reqs : oauth.stage[r] = "discovery"}

\* C28: the discovery-config cache is single-flight: for any number of
\* exchange calls that start concurrently while the cache is empty, the
\* discovery request is issued at most once, and all of them use its
\* result.
C28_SingleFlightDiscovery ==
    /\ Cardinality(Discovering) <= 1
    /\ \A r \in Reqs :
          oauth.stage[r] = "grant" => oauth.cached # NoConfig

\* ---------------------------------------------------------------- C29
\* C29: the discovery cache is write-once for the process: after the first
\* successful discovery no later exchange, sequential or concurrent,
\* performs discovery again or replaces or clears the cached configuration.
C29_WriteOnceCache ==
    [][oauth.cached # NoConfig =>
         /\ oauth'.cached = oauth.cached
         /\ \A r \in Reqs :
               oauth'.stage[r] = "discovery" => oauth.stage[r] = "discovery"]_vars

\* ---------------------------------------------------------------- C30
\* request r is an initialization on its way: tool loading, connect, or
\* about to be handled by its transport
Initializing(r) ==
    /\ req[r].method = "POST"
    /\ req[r].isInit
    /\ req[r].pc \in {"loadTools", "connect", "handle"}

\* the transport of request r announces its session in this step
SessionInitialized(r) ==
    /\ Initializing(r)
    /\ req[r].pc = "handle"
    /\ transports'[req[r].transport].sessionId
          # transports[req[r].transport].sessionId

\* what C30 requires of every step
C30_EveryStep ==
    \A r \in Reqs :
      /\ (PostArrives(r) /\ req'[r].isInit) =>
            /\ Len(transports') = Len(transports) + 1
            /\ req'[r].transport = Len(transports')
            /\ req'[r].pc = "loadTools"
            /\ sessions' = sessions
      /\ SessionInitialized(r) =>
            LET id == transports'[req[r].transport].sessionId
            IN /\ id \notin DOMAIN sessions
               /\ DOMAIN sessions' = DOMAIN sessions \cup {id}
               /\ sessions'[id].transport = req[r].transport
               /\ \A i \in DOMAIN sessions : sessions'[i] = sessions[i]
               /\ \A u \in DOMAIN transports \ {req[r].transport} :
                     transports'[u] = transports[u]

\* C30: two initialization requests without session identifier handled
\* concurrently each create their own transport and their own session:
\* nothing is de-duplicated, the two sessions get distinct identifiers, both
\* end up in the registry, and neither overwrites or removes the other.
C30_InitializationRace ==
    /\ (\A r \in Reqs, o \in Reqs :
             (r # o /\ Initializing(r) /\ Initializing(o)) =>
                req[r].transport # req[o].transport)
    /\ (\A t \in DOMAIN transports, u \in DOMAIN transports :
             (t # u /\ transports[t].sessionId # NoId) =>
                transports[t].sessionId # transports[u].sessionId)
    /\ ~ENABLED (Next /\ ~C30_EveryStep)

\* two initializations are in flight at once, one awaiting connect and one
\* still loading tools, each with its own transport
C30_Witness ==
    /\ Initializing(1) /\ Initializing(2)
    /\ req[1].pc = "connect"
    /\ req[2].pc = "loadTools"
    /\ req[1].sessionId = NoId /\ req[2].sessionId = NoId
    /\ req[1].transport # req[2].transport

\* both sessions ended up in the registry, under different identifiers
C30_WitnessBothRegistered ==
    /\ Len(transports) = 2
    /\ ~transports[1].closed /\ ~transports[2].closed
    /\ transports[1].sessionId \in DOMAIN sessions
    /\ transports[2].sessionId \in DOMAIN sessions
    /\ transports[1].sessionId # transports[2].sessionId
    /\ sessions[transports[1].sessionId].transport = 1
    /\ sessions[transports[2].sessionId].transport = 2

\* a session that holds a cached credential and is still registered after
\* the step
KeepsCredential(i) ==
    /\ i \in DOMAIN sessions
    /\ Truthy(sessions[i].downstreamToken)
    /\ i \in DOMAIN sessions'

\* a POST arrives on a session whose cache already holds a credential
ArrivesCached(r) ==
    /\ PostArrives(r)
    /\ req'[r].sessionId \in DOMAIN sessions
    /\ Truthy(sessions[req'[r].sessionId].downstreamToken)

\* C31 as stated: once a session's cached credential is set, the cached value
\* never changes until the session is deleted, and a request that arrives on
\* the session afterwards calls no exchange and reads no static token.
C31_Original ==
    [][ /\ \A i \in Ids :
             KeepsCredential(i) =>
                sessions'[i].downstreamToken = sessions[i].downstreamToken
        /\ \A r \in Reqs :
             ArrivesCached(r) =>
                req'[r].exchCalls = 0 /\ req'[r].staticReads = 0 ]_vars

\* what C31 requires of every step
C31_EveryStep ==
    /\ \A i \in Ids :
         KeepsCredential(i) =>
            /\ Truthy(sessions'[i].downstreamToken)
            /\ sessions'[i].downstreamToken # sessions[i].downstreamToken
               => \E r \in Reqs :
                     /\ ExchangeReturns(r)
                     /\ req[r].sessionId = i
                     /\ req[r].exchCalls = 1
                     /\ sessions'[i].downstreamToken =
                           AccessTokenFor(req[r].exchArg)
    /\ \A r \in Reqs :
         /\ ArrivesCached(r) =>
               /\ req'[r].pc = "handle"
               /\ req'[r].exchCalls = 0
               /\ req'[r].staticReads = 0
               /\ req'[r].cacheWrites = 0
               /\ sessions' = sessions
         /\ req'[r].exchCalls > req[r].exchCalls => PostArrives(r)

\* C31 (amended): once a session's cached credential is set, a request that
\* arrives on the session afterwards calls no exchange, reads no static token
\* and leaves the cache alone; an exchange is only ever started by an
\* arriving request; until the session is deleted the cache stays set, and
\* its value changes only when an exchange that was already in flight for
\* that session returns a token, which is then stored over the old one.
C31_Amended ==
    ~ENABLED (SingleNext /\ ~C31_EveryStep)

\* a request served from the cache still carries the first credential while
\* an exchange that was in flight has stored another one over it
C31_Witness ==
    \E r \in Reqs :
        /\ req[r].pc = "handle"
        /\ req[r].method = "POST"
        /\ req[r].exchCalls = 0
        /\ req[r].staticReads = 0
        /\ req[r].sessionId \in DOMAIN sessions
        /\ Attached(req[r]) \in DownstreamTokens
        /\ sessions[req[r].sessionId].downstreamToken \in DownstreamTokens
        /\ sessions[req[r].sessionId].downstreamToken # Attached(req[r])

\* the initialization request r has its tools registered and its server
\* connected to its transport
SetUp(rq) ==
    /\ rq.isInit
    /\ rq.toolsRegistered
    /\ rq.transport \in DOMAIN transports
    /\ transports[rq.transport].connected

\* what C32 requires of every step
C32_EveryStep ==
    /\ \A t \in DOMAIN transports :
         (~transports[t].connected /\ transports'[t].connected) =>
            \E r \in Reqs :
               /\ req[r].pc = "connect"
               /\ req[r].transport = t
               /\ req[r].toolsRegistered
               /\ req'[r].pc = "handle"
    /\ \A i \in DOMAIN sessions' \ DOMAIN sessions :
         \E r \in Reqs :
            /\ req[r].pc = "handle"
            /\ SetUp(req[r])
            /\ sessions'[i].transport = req[r].transport
            /\ transports[req[r].transport].sessionId = NoId
            /\ req'[r] = IdleReq

\* C32: on the new-session path the tools are registered before the server is
\* connected, the server is connected before the request is handed to the
\* transport, and an identifier enters the registry only in the step in which
\* the transport, handling that request, confirms the session: never before
\* the tools are registered and the server is connected.
C32_NewSessionOrdering ==
    /\ (\A r \in Reqs :
            /\ req[r].pc = "loadTools" =>
                  /\ ~req[r].toolsRegistered
                  /\ ~transports[req[r].transport].connected
                  /\ transports[req[r].transport].sessionId = NoId
            /\ req[r].pc = "connect" =>
                  /\ req[r].toolsRegistered
                  /\ ~transports[req[r].transport].connected
                  /\ transports[req[r].transport].sessionId = NoId
            /\ (req[r].pc = "handle" /\ req[r].method = "POST") =>
                  /\ transports[req[r].transport].connected
                  /\ req[r].sessionId = NoId => SetUp(req[r]))
    /\ (\A i \in DOMAIN sessions :
            /\ transports[sessions[i].transport].connected
            /\ transports[sessions[i].transport].sessionId = i)
    /\ ~ENABLED (SerialNext /\ ~C32_EveryStep)

\* a second initialization has its tools registered and its server connected
\* and waits for the transport, which has not confirmed the session yet,
\* while the first session is registered
C32_Witness ==
    \E r \in Reqs :
        /\ req[r].pc = "handle"
        /\ SetUp(req[r])
        /\ req[r].transport = 2
        /\ transports[req[r].transport].sessionId = NoId
        /\ DOMAIN sessions # {}

\* the requests that are on the new-session path or were handed over from it
OnNewSessionPath(r) ==
    req[r].method = "POST" /\ req[r].isInit /\ req[r].pc \notin Free

\* what C33 requires of every step
C33_EveryStep ==
    /\ \A r \in Reqs :
         PostArrives(r) =>
            IF req'[r].sessionId = NoId /\ req'[r].isInit
            THEN /\ loadToolsCalls' = loadToolsCalls + 1
                 /\ transports' = Append(transports, NewTransport)
                 /\ req'[r].transport = Len(transports')
                 /\ req'[r].pc = "loadTools"
                 /\ ~req'[r].toolsRegistered
            ELSE /\ loadToolsCalls' = loadToolsCalls
                 /\ Len(transports') = Len(transports)
                 /\ req'[r].pc \in {"rejected", "handle", "exchange"}
    /\ loadToolsCalls' # loadToolsCalls =>
         \E r \in Reqs :
            /\ PostArrives(r)
            /\ req'[r].sessionId = NoId
            /\ req'[r].isInit

\* C33: loadTools is called once in the step that accepts an initialization
\* request, together with the construction of one new transport and server
\* for that request alone, and in no other step: not on the reuse path, not
\* on the reject path, not when a GET or DELETE arrives.  No two requests on
\* the new-session path and no two sessions share a transport and server.
C33_ToolsPerSession ==
    /\   (/\ loadToolsCalls = Len(transports)
          /\ \A r, q \in Reqs :
               ( /\ r # q
                 /\ OnNewSessionPath(r)
                 /\ OnNewSessionPath(q) )
               => req[r].transport # req[q].transport
          /\ \A i, j \in DOMAIN sessions :
               i # j => sessions[i].transport # sessions[j].transport
          /\ \A r \in Reqs, i \in DOMAIN sessions :
               (OnNewSessionPath(r) /\ req[r].pc \in {"loadTools", "connect"})
               => sessions[i].transport # req[r].transport)
    /\ ~ENABLED (SerialNext /\ ~C33_EveryStep)

\* two sessions were initialized, each by its own loadTools call, and a
\* request reusing the first session is with its transport
C33_Witness ==
    /\ loadToolsCalls = 2
    /\ Cardinality(DOMAIN sessions) = 2
    /\ \E r \in Reqs :
          /\ req[r].pc = "handle"
          /\ req[r].method = "POST"
          /\ req[r].sessionId \in DOMAIN sessions
          /\ req[r].transport = 1

\* a step in which request r reads the static token
ReadsStatic(r) == req'[r].staticReads > req[r].staticReads

\* what C34 requires of every step
C34_EveryStep ==
    \A r \in Reqs :
      /\ ReadsStatic(r) =>
            /\ req'[r].staticReads = req[r].staticReads + 1
            /\ req'[r].pc = "handle"
            /\ backendToken' = backendToken
            /\ IF Truthy(backendToken)
               THEN Attached(req'[r]) = backendToken
               ELSE ~Truthy(Attached(req'[r]))
      /\ (HandsOver(r) /\ Attached(req'[r]) \in StaticTokens) =>
            /\ ReadsStatic(r)
            /\ Attached(req'[r]) = backendToken
      /\ ( /\ HandsOver(r)
           /\ req'[r].sessionId # NoId
           /\ req'[r].auth.valid
           /\ ~Truthy(Attached(req'[r])) ) =>
            ReadsStatic(r) /\ ~Truthy(backendToken)

\* C34: every fallback reads the configuration file once, at that moment: the
\* request is given the token the file holds then, whatever it held at
\* startup or at an earlier fallback, and nothing when the file holds none;
\* a static token attached to a request handed to a transport is always the
\* one the file held at the hand-over, read by that very request.
C34_StaticTokenRotation ==
    ~ENABLED (SingleNext /\ ~C34_EveryStep)

\* two requests fell back around a change of the file: one carries the old
\* token, the other the new one
C34_Witness ==
    \E r, q \in Reqs :
        /\ req[r].pc = "handle" /\ req[q].pc = "handle"
        /\ req[r].staticReads = 1 /\ req[q].staticReads = 1
        /\ Attached(req[r]) = "st1"
        /\ Attached(req[q]) = "st2"
        /\ backendToken = "st2"

\* the token was removed from the file and the next fallback attached nothing
C34_WitnessRemoved ==
    \E r, q \in Reqs :
        /\ req[r].pc = "handle" /\ req[q].pc = "handle"
        /\ req[r].staticReads = 1 /\ req[q].staticReads = 1
        /\ Attached(req[r]) \in StaticTokens
        /\ ~Truthy(Attached(req[q]))
        /\ backendToken = Undefined

\* a POST without a session identifier header that was not refused: the
\* initialization request
HeaderlessInit(rq) ==
    rq.method = "POST" /\ rq.sessionId = NoId /\ rq.pc \notin Free

\* what C35 requires of every step
C35_EveryStep ==
    /\ \A r \in Reqs :
         ( HeaderlessInit(req[r]) /\ req'[r] # req[r] ) =>
            /\ \A i \in DOMAIN sessions :
                  i \in DOMAIN sessions' /\ sessions'[i] = sessions[i]
            /\ \A i \in DOMAIN sessions' \ DOMAIN sessions :
                  sessions'[i].downstreamToken = Null
    /\ \A r \in Reqs :
         ( \/ req'[r].exchCalls > req[r].exchCalls
           \/ req'[r].staticReads > req[r].staticReads
           \/ req'[r].cacheWrites > req[r].cacheWrites ) =>
            req'[r].sessionId # NoId

\* C35: while the dispatcher handles an initialization request (no session
\* identifier header) it calls no exchange, reads no static token and writes
\* no cache entry, and the request reaches the transport with no downstream
\* token in its context, whatever the configuration; the session it creates
\* enters the registry with an empty cache, and an exchange or a static-token
\* read only ever happens for an arriving or resuming request that carries an
\* identifier.
C35_InitResolvesNothing ==
    /\ (\A r \in Reqs :
            HeaderlessInit(req[r]) =>
               /\ req[r].pc \in {"loadTools", "connect", "handle"}
               /\ req[r].exchCalls = 0
               /\ req[r].staticReads = 0
               /\ req[r].cacheWrites = 0
               /\ ~Truthy(Attached(req[r])))
    /\ ~ENABLED (SingleNext /\ ~C35_EveryStep)

\* with authentication and exchange enabled, an initialization request with
\* a validated bearer is with the transport and carries no downstream token
C35_Witness ==
    \E r \in Reqs :
        /\ enableAuth /\ enableTokenExchange
        /\ Truthy(backendToken)
        /\ HeaderlessInit(req[r])
        /\ req[r].pc = "handle"
        /\ req[r].auth.valid
        /\ Truthy(req[r].auth.subjectToken)
        /\ ~Truthy(Attached(req[r]))

\* the first request that carries the new identifier resolves the credential
C35_WitnessFirstResolution ==
    \E r \in Reqs :
        /\ req[r].pc = "exchange"
        /\ req[r].sessionId \in DOMAIN sessions
        /\ sessions[req[r].sessionId].downstreamToken = Null
        /\ \A q \in Reqs \ {r} : req[q].pc \in Free

\* the context of line 105 when authentication is enabled
SynthesizedInvalid ==
    [present |-> TRUE, valid |-> FALSE, subjectToken |-> Undefined,
     downstreamToken |-> Null]

\* what C36 requires of every step
C36_EveryStep ==
    \A r \in Reqs :
      /\ ( /\ req[r].pc = "connect"
           /\ ~req[r].auth.present
           /\ req'[r] # req[r] ) =>
            /\ req'[r].pc = "handle"
            /\ req'[r].auth = SynthesizedInvalid
            /\ sessions' = sessions
      /\ ( /\ PostArrives(r)
           /\ req'[r].sessionId \in DOMAIN sessions ) =>
            /\ req'[r].pc \in {"handle", "exchange"}
            /\ ~req'[r].auth.valid =>
                  /\ req'[r].pc = "handle"
                  /\ req'[r].transport =
                        sessions[req'[r].sessionId].transport
                  /\ sessions' = sessions
      /\ ( /\ PostArrives(r)
           /\ req'[r].sessionId = NoId
           /\ req'[r].isInit ) =>
            req'[r].pc = "loadTools"

\* C36: with authentication enabled, a request that reaches the dispatcher
\* with no auth context gets the context {valid: false, downstreamToken:
\* null}; for a request whose context is not valid the dispatcher calls no
\* exchange, reads no static token, writes no cache entry and attaches no
\* token, and still hands the request to the transport: it refuses a request
\* only for its session header and body, never for its auth context.
C36_NoContextStillHandled ==
    /\ (\A r \in Reqs :
            /\ ( /\ req[r].method = "POST"
                 /\ req[r].pc \in {"handle", "exchange"}
                 /\ ~req[r].auth.valid ) =>
                  /\ req[r].pc = "handle"
                  /\ req[r].auth.present
                  /\ req[r].exchCalls = 0
                  /\ req[r].staticReads = 0
                  /\ req[r].cacheWrites = 0
                  /\ ~Truthy(Attached(req[r]))
            /\ (req[r].method = "POST" /\ req[r].pc = "rejected") =>
                  /\ req[r].code = -32000
                  /\ ~(req[r].sessionId = NoId /\ req[r].isInit))
    /\ ~ENABLED (DispatcherNext /\ ~C36_EveryStep)

\* a request that arrived on a live session without a context is with the
\* transport, its context synthesized as not valid, while a static token is
\* configured
C36_Witness ==
    \E r \in Reqs :
        /\ enableAuth
        /\ Truthy(backendToken)
        /\ req[r].pc = "handle"
        /\ req[r].method = "POST"
        /\ req[r].sessionId \in DOMAIN sessions
        /\ req[r].auth = SynthesizedInvalid

\* an initialization request without a context reached the transport
C36_WitnessInit ==
    \E r \in Reqs :
        /\ enableAuth
        /\ req[r].pc = "handle"
        /\ req[r].isInit
        /\ req[r].auth = SynthesizedInvalid

\* C37: with authentication and exchange enabled, an exchanged credential
\* attached to a request was obtained from the subject token of that
\* request's own validated bearer: a credential cached from one caller's
\* bearer is never attached to a request that presents the session's
\* identifier with another user's valid bearer.
C37_IdentityBinding ==
    \A r \in Reqs :
        ( /\ enableAuth /\ enableTokenExchange
          /\ req[r].method = "POST"
          /\ req[r].pc = "handle"
          /\ req[r].auth.valid
          /\ req[r].auth.subjectToken \in SubjectTokens
          /\ Attached(req[r]) \in DownstreamTokens )
        => Attached(req[r]) = AccessTokenFor(req[r].auth.subjectToken)

\* C38: whenever the dispatcher invokes handleRequest for a request that
\* carries a session identifier, that session is in the registry and its
\* transport is open, also when the request looked the transport up while
\* the session was live and was then suspended in a credential exchange.
C38_NoHandleAfterRemoval ==
    [][\A r \in Reqs :
         ( HandsOver(r) /\ req'[r].sessionId # NoId ) =>
            /\ req'[r].sessionId \in DOMAIN sessions'
            /\ sessions'[req'[r].sessionId].transport = req'[r].transport
            /\ ~transports'[req'[r].transport].closed ]_vars

\* a step in which the loadTools call awaited by request r rejects
LoadToolsRejects(r) == req[r].pc = "loadTools" /\ req'[r].pc = "failed"

\* no session belongs to transport t, which is neither connected nor confirmed
Unused(ts, ss, t) ==
    /\ ~ts[t].connected
    /\ ts[t].sessionId = NoId
    /\ \A i \in DOMAIN ss : ss[i].transport # t

\* what C39 requires of every step
C39_EveryStep ==
    \A r \in Reqs :
      /\ LoadToolsRejects(r) =>
            /\ sessions' = sessions
            /\ transports' = transports
            /\ req'[r].transport = req[r].transport
      /\ (req[r].pc = "failed" /\ req'[r] # req[r]) =>
            /\ Arrives(r)
            /\ req'[r].transport # req[r].transport
            /\ Unused(transports', sessions', req[r].transport)
      /\ (req[r].pc = "loadTools" /\ req'[r] # req[r]) =>
            \/ LoadToolsRejects(r)
            \/ req'[r].pc = "connect" /\ req'[r].toolsRegistered
      /\ (req[r].pc # "connect" /\ req'[r].pc = "connect") =>
            req[r].pc = "loadTools" /\ ~LoadToolsRejects(r)

\* C39: when loadTools rejects on the new-session path, the step adds no
\* identifier to the registry and changes no transport; the request's server
\* is not connected and stays so, its transport never gets a session, the
\* request is never handed to a transport, and it calls no exchange and reads
\* no static token: the handler is over, and the slot changes again only
\* when another request arrives.  A server is connected only after its
\* loadTools call succeeded and its tools were registered.
C39_FailedInitLeavesNothing ==
    /\ (\A r \in Reqs :
            req[r].pc = "failed" =>
               /\ req[r].thrown = "loadToolsError"
               /\ req[r].exchCalls = 0
               /\ req[r].staticReads = 0
               /\ req[r].cacheWrites = 0
               /\ ~req[r].toolsRegistered
               /\ Unused(transports, sessions, req[r].transport))
    /\ ~ENABLED (Next /\ ~C39_EveryStep)

\* the first initialization failed in tool loading, a later one succeeded:
\* the registry holds the later session only
C39_Witness ==
    \E r \in Reqs :
        /\ req[r].pc = "failed"
        /\ req[r].transport = 1
        /\ Cardinality(DOMAIN sessions) = 1
        /\ \A i \in DOMAIN sessions : sessions[i].transport = 2

\* a step in which the discovery awaited for request r fails
DiscoveryFails(r) ==
    oauth.stage[r] = "discovery" /\ oauth'.stage[r] = "none"

\* a step in which the discovery awaited for request r succeeds
DiscoverySucceeds(r) ==
    oauth.stage[r] = "discovery" /\ oauth'.stage[r] = "grant"

\* a step in which the exchanger is called for request r
ExchangerCalled(r) ==
    oauth.stage[r] = "none" /\ oauth'.stage[r] # "none"

\* what C40 requires of every step
C40_EveryStep ==
    /\ \A r \in Reqs :
         /\ DiscoveryFails(r) =>
               /\ oauth'.cached = oauth.cached
               /\ oauth'.log[r] = "Failed to initialize OpenID client"
               /\ req[r].pc = "exchange"
               /\ req'[r].pc = "handle"
               /\ req'[r].staticReads = req[r].staticReads + 1
               /\ req'[r].cacheWrites = 0
               /\ ~Truthy(Attached(req'[r])) \/
                     Attached(req'[r]) = backendToken
               /\ sessions' = sessions
         /\ ExchangerCalled(r) =>
               /\ req'[r].pc = "exchange"
               /\ oauth'.cached = oauth.cached
               /\ oauth'.stage[r] = IF oauth.cached = NoConfig
                                    THEN "discovery" ELSE "grant"
         /\ DiscoverySucceeds(r) =>
               /\ oauth'.cached = DiscoveredConfig(r)
               /\ oauth'.cached # NoConfig
               /\ req'[r] = req[r]
    /\ oauth'.cached # oauth.cached =>
         \E r \in Reqs : DiscoverySucceeds(r)

\* C40: a failed discovery writes nothing to the discovery cache (an empty
\* cache stays empty), and the exchange it belongs to returns null: the
\* request falls back to the static token and caches nothing.  Every
\* exchanger call that finds the cache empty starts a discovery of its own,
\* also after a failure; a discovery that succeeds fills the cache, and
\* nothing else writes it.
C40_FailedDiscoveryNotCached ==
    ~ENABLED (ExchangeNext /\ ~C40_EveryStep)

\* the discovery of one exchange failed and the request went on without an
\* exchanged token; a later request's exchange ran discovery again, which
\* succeeded and filled the cache
C40_Witness ==
    \E r, q \in Reqs :
        /\ r # q
        /\ oauth.log[r] = "Failed to initialize OpenID client"
        /\ req[r].pc = "handle"
        /\ req[r].staticReads = 1
        /\ oauth.stage[q] = "grant"
        /\ oauth.cached = DiscoveredConfig(q)

\* after a failed discovery the cache is empty and another exchange is in
\* its own discovery
C40_WitnessRetry ==
    \E r, q \in Reqs :
        /\ r # q
        /\ oauth.log[r] = "Failed to initialize OpenID client"
        /\ req[r].pc = "idle"
        /\ oauth.cached = NoConfig
        /\ oauth.stage[q] = "discovery"

====
